---- MODULE Spec2Model ----
(***************************************************************************)
(* IdeaForge backend: the generation-to-artifact pipeline.                 *)
(*                                                                         *)
(* Two variants of the pipeline live in the repository and both are        *)
(* modelled, with the suffix of the file they come from:                   *)
(*   _rb  src/IdeaForge_Backend/live_backend_real_build.py                 *)
(*   _lb  src/IdeaForge_Backend/live_backend.py                            *)
(*                                                                         *)
(* Text is a sequence of tokens.  A token is a chunk of characters; the    *)
(* concatenation of the tokens is the Python string.  The alphabet is      *)
(* chosen so that every literal the code searches for (the fence,         *)
(* "FILENAME:", "import ", "void main()", "int ", "?", "=", ...) is a      *)
(* sequence of whole tokens and no token properly contains one, so the     *)
(* Python substring tests are subsequence tests on tokens.                 *)
(***************************************************************************)
EXTENDS Integers, Sequences, FiniteSets, TLC

VARIABLES
  segs,   \* the blocks the model output is made of (its provenance)
  raw,    \* generated_text: the model output
  rbOut,  \* files as returned by parse_generated_code (real build)
  lbOut,  \* parsed_files as returned by parse_generated_code (live backend)
  nsOut,  \* (success, fixed_content, error_message) of the null-safety pass
  fs,     \* a file set under validation
  vOut,   \* the outcome of the validation loop on fs
  backend,   \* which of the two backends is deployed: "rb" or "lb"
  branches,  \* the remote repository: branch name -> head commit (0: no branch)
  trees,     \* the remote repository: commit -> tree (path -> content)
  tempDirs,  \* the working copies that exist on disk
  pubLog,    \* the calls of update_github_repository and what they returned
  conversation_history,  \* user id -> the stored turns
  build_statuses,        \* build id -> the recorded status
  runs,      \* the pipeline runs: the stages each invoked and its response
  obs,       \* what the build service and the bucket show to one status query
  sample,    \* what get_cloud_build_status_and_apk_url returned for obs
  job,       \* what the build service shows to the successive queries of a run
  poll,      \* the polling loop of a run: its position and its local variables
  threads,   \* the handler threads of concurrent requests: position and locals
  builds,    \* the builds the service created, by build id
  reqs,      \* the generation requests received, in order
  http,      \* the last request to a status endpoint and its response
  said,      \* conversation id -> every turn of its successful calls
  callers,   \* the threads inside call_claude_api: position and locals
  heap,      \* the list objects of the interpreter, by reference
  hooks      \* the calls of cloud_build_webhook: position and locals

extractVars == <<segs, raw, rbOut, lbOut, nsOut>>
validateVars == <<fs, vOut>>
repoVars == <<backend, branches, trees, tempDirs, pubLog>>
pipeVars == <<conversation_history, build_statuses, runs, reqs>>
buildVars == <<obs, sample, job, poll, threads, builds>>
serviceVars == <<http, said, callers, heap, hooks>>
vars == <<extractVars, validateVars, repoVars, pipeVars, buildVars, serviceVars>>

\* ------------------------------------------------------------------------
\* Bounds
\* ------------------------------------------------------------------------
MaxSegs == 4
MaxPublishes == 3
MaxPipeSegs == 2
MaxRuns == 1
MaxArtifacts == 2
MaxTime == 3
MaxPrefix == 3
MaxThreads == 2
MaxRequests == 3
MaxCalls == 6
MaxScanSegs == 3
MaxHooks == 2

\* ------------------------------------------------------------------------
\* Tokens
\* ------------------------------------------------------------------------
WS == " "
NL == "\n"
\* the fence marker, three backticks (the token is spelled without them)
FENCE == "<fence>"
FNMARK == "FILENAME:"
K_MAIN == <<"main.dart">>
K_PUB == <<"pubspec.yaml">>
K_LOGO == <<"assets/", "logo.png">>
NoValue == "None"

\* ------------------------------------------------------------------------
\* Python str / list primitives on token sequences
\* ------------------------------------------------------------------------
IsSpace(t) == t \in {WS, NL}

RECURSIVE py_lstrip(_)
py_lstrip(s) ==
  IF s # <<>> /\ IsSpace(Head(s)) THEN py_lstrip(Tail(s)) ELSE s

RECURSIVE py_rstrip(_)
py_rstrip(s) ==
  IF s # <<>> /\ IsSpace(s[Len(s)]) THEN py_rstrip(SubSeq(s, 1, Len(s) - 1)) ELSE s

py_strip(s) == py_lstrip(py_rstrip(s))

py_startswith(s, p) == Len(s) >= Len(p) /\ SubSeq(s, 1, Len(p)) = p

py_endswith(s, p) == Len(s) >= Len(p) /\ SubSeq(s, Len(s) - Len(p) + 1, Len(s)) = p

\* p in s
py_in(p, s) ==
  \E i \in 1..(Len(s) - Len(p) + 1) : SubSeq(s, i, i + Len(p) - 1) = p

\* s.find(t) and s.rfind(t) for a one-token t, 0-based, -1 when absent
py_find(s, t) ==
  IF \E i \in 1..Len(s) : s[i] = t
  THEN (CHOOSE i \in 1..Len(s) : s[i] = t /\ \A j \in 1..(i - 1) : s[j] # t) - 1
  ELSE -1

py_rfind(s, t) ==
  IF \E i \in 1..Len(s) : s[i] = t
  THEN (CHOOSE i \in 1..Len(s) : s[i] = t /\ \A j \in (i + 1)..Len(s) : s[j] # t) - 1
  ELSE -1

\* s[a:b] with 0-based, non-negative a and b
py_slice(s, a, b) ==
  LET hi == IF b > Len(s) THEN Len(s) ELSE b
  IN IF a >= hi THEN <<>> ELSE SubSeq(s, a + 1, hi)

\* s.split(t): the pieces between the occurrences of token t
RECURSIVE py_split(_, _)
py_split(s, t) ==
  LET i == py_find(s, t)
  IN IF i = -1 THEN <<s>>
     ELSE <<py_slice(s, 0, i)>> \o py_split(py_slice(s, i + 1, Len(s)), t)

\* s.split(t, 1)
py_split1(s, t) ==
  LET i == py_find(s, t)
  IN IF i = -1 THEN <<s>>
     ELSE <<py_slice(s, 0, i), py_slice(s, i + 1, Len(s))>>

\* t.join(parts)
RECURSIVE py_join(_, _)
py_join(parts, t) ==
  IF parts = <<>> THEN <<>>
  ELSE IF Len(parts) = 1 THEN parts[1]
  ELSE parts[1] \o <<t>> \o py_join(Tail(parts), t)

\* dict with insertion order: a sequence of <<key, value>> pairs
dict_has(d, k) == \E i \in 1..Len(d) : d[i][1] = k

dict_get(d, k) == d[CHOOSE i \in 1..Len(d) : d[i][1] = k][2]

dict_put(d, k, v) ==
  IF dict_has(d, k)
  THEN [i \in 1..Len(d) |-> IF d[i][1] = k THEN <<k, v>> ELSE d[i]]
  ELSE Append(d, <<k, v>>)

dict_keys(d) == {d[i][1] : i \in 1..Len(d)}


\* ------------------------------------------------------------------------
\* Lines and blocks of the model output
\* ------------------------------------------------------------------------
L_IMPORT == <<"import", WS, "'pkg'", ";">>
L_ENTRY == <<"void", WS, "main()", WS, "{", "}">>
L_FIELD_INIT == <<WS, WS, "int", WS, "count", WS, "=", WS, "0", ";">>
L_FIELD_UNINIT == <<WS, WS, "int", WS, "count", ";">>
L_FIELD_COLOR == <<WS, WS, "Color", WS, "bg", ";">>
L_CLASS == <<"class", WS, "App", WS, "{", "}">>
L_LEAK == <<"//", WS, "see", WS, FNMARK, WS, "main.dart">>
L_NAME == <<"name:", WS, "app">>
L_COMMENT == <<"Here", WS, "is", WS, "the", WS, "app">>

\* the lines of a block as the model writes them (one line ends in a blank)
MainLinesRaw == <<L_IMPORT, L_ENTRY \o <<WS>>, L_FIELD_INIT>>
ColorLinesRaw == <<L_IMPORT, L_ENTRY \o <<WS>>, L_FIELD_COLOR>>
PubLinesRaw == <<L_NAME>>

\* ------------------------------------------------------------------------
\* yaml.safe_load on the manifests of the alphabet: block mappings of
\* "key: value" lines, one nested mapping ("flutter:"), one block list
\* ("assets:" with "- item" lines), an unclosed flow sequence ("[").
\* The value is a record
\*   [kind    |-> "error" (YAMLError) | "null" | "scalar" | "map",
\*    flutter |-> "absent" | "null" | "scalar" | "map",
\*    assets  |-> "absent" | "null" | "list", items |-> the list items]
\* ------------------------------------------------------------------------
YamlKeys ==
  {"name:", "flutter:", "assets:", "uses-material-design:", "description:",
   "publish_to:", "version:", "environment:", "sdk:", "dependencies:",
   "cupertino_icons:", "dev_dependencies:", "flutter_test:", "flutter_lints:"}

yaml_indent(line) == Len(line) - Len(py_lstrip(line))

yaml_is_key_line(line) ==
  LET b == py_lstrip(line) IN b # <<>> /\ b[1] \in YamlKeys

yaml_children(lines, i) ==
  LET stop == IF \E j \in (i + 1)..Len(lines) :
                   py_strip(lines[j]) # <<>> /\ yaml_indent(lines[j]) <= yaml_indent(lines[i])
              THEN CHOOSE j \in (i + 1)..Len(lines) :
                     /\ py_strip(lines[j]) # <<>>
                     /\ yaml_indent(lines[j]) <= yaml_indent(lines[i])
                     /\ \A k \in (i + 1)..(j - 1) :
                          py_strip(lines[k]) = <<>> \/ yaml_indent(lines[k]) > yaml_indent(lines[i])
              ELSE Len(lines) + 1
  IN {j \in (i + 1)..(stop - 1) : py_strip(lines[j]) # <<>>}

RECURSIVE yaml_items(_, _)
yaml_items(lines, js) ==
  IF js = {} THEN <<>>
  ELSE LET j == CHOOSE x \in js : \A y \in js : x <= y
           b == py_lstrip(lines[j])
       IN (IF b[1] = "-" THEN <<py_strip(Tail(b))>> ELSE <<>>)
          \o yaml_items(lines, js \ {j})

YamlVal(kind, flutter, assets, items) ==
  [kind |-> kind, flutter |-> flutter, assets |-> assets, items |-> items]

yaml_safe_load(content) ==
  LET lines == py_split(content, NL)
      body == {i \in 1..Len(lines) : py_strip(lines[i]) # <<>>}
      top == {i \in body : yaml_indent(lines[i]) = 0}
      unclosed == \E i \in body : py_in(<<"[">>, lines[i]) /\ ~py_in(<<"]">>, lines[i])
      keyTop == {i \in top : yaml_is_key_line(lines[i])}
  IN IF unclosed THEN YamlVal("error", "absent", "absent", <<>>)
     ELSE IF body = {} THEN YamlVal("null", "absent", "absent", <<>>)
     ELSE IF keyTop = {} THEN YamlVal("scalar", "absent", "absent", <<>>)
     ELSE IF keyTop # top THEN YamlVal("error", "absent", "absent", <<>>)
     ELSE LET fl == {i \in top : py_lstrip(lines[i])[1] = "flutter:"}
          IN IF fl = {} THEN YamlVal("map", "absent", "absent", <<>>)
             ELSE LET f == CHOOSE i \in fl : \A j \in fl : j <= i
                      kids == yaml_children(lines, f)
                      inl == py_strip(Tail(py_lstrip(lines[f])))
                      as == {j \in kids : py_lstrip(lines[j])[1] = "assets:"}
                  IN IF inl # <<>> THEN YamlVal("map", "scalar", "absent", <<>>)
                     ELSE IF kids = {} THEN YamlVal("map", "null", "absent", <<>>)
                     ELSE IF as = {} THEN YamlVal("map", "map", "absent", <<>>)
                     ELSE LET a == CHOOSE j \in as : \A k \in as : k <= j
                              its == yaml_items(lines, yaml_children(lines, a))
                          IN IF its = <<>>
                             THEN YamlVal("map", "map", "null", <<>>)
                             ELSE YamlVal("map", "map", "list", its)

\* ------------------------------------------------------------------------
\* parse_generated_code, live_backend_real_build.py
\* ------------------------------------------------------------------------
NotRun == [done |-> FALSE, ok |-> FALSE, error |-> <<>>, files |-> <<>>]
Ok(files) == [done |-> TRUE, ok |-> TRUE, error |-> <<>>, files |-> files]
Err(msg) == [done |-> TRUE, ok |-> FALSE, error |-> msg, files |-> <<>>]

ScanInit ==
  [files |-> <<>>, ignored_text |-> <<>>, current_text |-> <<>>,
   in_code_block |-> FALSE, current_filename |-> <<>>]

\* lines 176-185: which key a closed block is stored under (<<>>: dropped)
store_key_rb(fn) ==
  IF fn \in {K_MAIN, K_PUB} THEN fn
  ELSE IF py_in(K_MAIN, fn) THEN K_MAIN
  ELSE IF py_in(K_PUB, fn) THEN K_PUB
  ELSE IF py_startswith(fn, <<"assets/">>) THEN fn
  ELSE <<>>

\* scan_line_rb closing a block only at a bare fence line
scan_line_rb_bare_close(st, line0) ==
  LET line == py_rstrip(line0)
      bare == py_strip(line)
  IN IF py_startswith(bare, <<FENCE>>) /\ (st.in_code_block => bare = <<FENCE>>)
     THEN IF ~st.in_code_block
          THEN LET parts == py_split(py_slice(bare, 1, Len(bare)), ":")
               IN [st EXCEPT !.in_code_block = TRUE,
                             !.current_filename =
                                IF Len(parts) > 1 THEN py_strip(parts[2]) ELSE @]
          ELSE LET k == store_key_rb(st.current_filename)
               IN [st EXCEPT !.in_code_block = FALSE,
                             !.files =
                                IF st.current_filename # <<>> /\ st.current_text # <<>> /\ k # <<>>
                                THEN dict_put(@, k, py_join(st.current_text, NL))
                                ELSE @,
                             !.current_text = <<>>,
                             !.current_filename = <<>>]
     ELSE IF st.in_code_block
     THEN [st EXCEPT !.current_text = Append(@, line)]
     ELSE IF bare # <<>> /\ ~py_startswith(bare, <<FNMARK>>)
     THEN [st EXCEPT !.ignored_text = Append(@, bare)]
     ELSE st

\* one iteration of the loop over the lines
scan_line_rb(st, line0) ==
  LET line == py_rstrip(line0)
      bare == py_strip(line)
  IN IF py_startswith(bare, <<FENCE>>)
     THEN IF ~st.in_code_block
          THEN LET parts == py_split(py_slice(bare, 1, Len(bare)), ":")
               IN [st EXCEPT !.in_code_block = TRUE,
                             !.current_filename =
                                IF Len(parts) > 1 THEN py_strip(parts[2]) ELSE @]
          ELSE LET k == store_key_rb(st.current_filename)
               IN [st EXCEPT !.in_code_block = FALSE,
                             !.files =
                                IF st.current_filename # <<>> /\ st.current_text # <<>> /\ k # <<>>
                                THEN dict_put(@, k, py_join(st.current_text, NL))
                                ELSE @,
                             !.current_text = <<>>,
                             !.current_filename = <<>>]
     ELSE IF st.in_code_block
     THEN [st EXCEPT !.current_text = Append(@, line)]
     ELSE IF bare # <<>> /\ ~py_startswith(bare, <<FNMARK>>)
     THEN [st EXCEPT !.ignored_text = Append(@, bare)]
     ELSE st

RECURSIVE scan_rb(_, _)
scan_rb(st, lines) ==
  IF lines = <<>> THEN st ELSE scan_rb(scan_line_rb(st, Head(lines)), Tail(lines))

\* lines 245-253: 1-based number of the first flagged line, 0 when none
FieldTypes_rb ==
  {<<"double", WS>>, <<"int", WS>>, <<"String", WS>>, <<"bool", WS>>, <<"List<">>, <<"Map<">>}

SkipPrefixes ==
  {<<"import", WS>>, <<"//">>, <<"/*">>, <<"*">>, <<"*/">>, <<"class", WS>>,
   <<"void", WS>>, <<"return", WS>>, <<"}">>}

uninit_line_rb(line0) ==
  LET line == py_strip(line0)
  IN /\ line # <<>>
     /\ ~\E p \in SkipPrefixes : py_startswith(line, p)
     /\ \E f \in FieldTypes_rb : py_in(f, line)
     /\ ~py_in(<<"?">>, line) /\ ~py_in(<<"=">>, line) /\ ~py_in(<<"required">>, line)

min_of(S) == CHOOSE i \in S : \A j \in S : i <= j

uninit_lines_rb(lines) == {i \in 1..Len(lines) : uninit_line_rb(lines[i])}

\* first_uninit_rb reporting the last flagged line
first_uninit_rb_last(content) ==
  IF uninit_lines_rb(py_split(content, NL)) = {} THEN 0
  ELSE CHOOSE i \in uninit_lines_rb(py_split(content, NL)) :
         \A j \in uninit_lines_rb(py_split(content, NL)) : j <= i

first_uninit_rb(content) ==
  IF uninit_lines_rb(py_split(content, NL)) = {} THEN 0
  ELSE min_of(uninit_lines_rb(py_split(content, NL)))

\* lines 230-233: the declared assets that are not keys of files
missing_assets_rb(files, items) ==
  {i \in 1..Len(items) : py_startswith(items[i], <<"assets/">>) /\ ~dict_has(files, items[i])}

\* lines 219-235, given the loaded manifest y
check_manifest_rb(files, y) ==
  IF y.kind = "error" THEN <<"Invalid YAML syntax in pubspec.yaml">>
  ELSE IF y.kind = "null" THEN <<"Error parsing pubspec.yaml assets">>
  ELSE IF y.kind = "scalar" THEN <<>>
  ELSE IF y.flutter \in {"absent", "scalar"} THEN <<>>
  ELSE IF y.flutter = "null" THEN <<"Error parsing pubspec.yaml assets">>
  ELSE IF y.assets = "absent" THEN <<>>
  ELSE IF y.assets = "null" THEN <<"Error parsing pubspec.yaml assets">>
  ELSE IF missing_assets_rb(files, y.items) = {} THEN <<>>
  ELSE <<"Missing required asset file: ">> \o y.items[min_of(missing_assets_rb(files, y.items))]

\* lines 245-253, given the number n of the first flagged line
check_fields_rb(n) ==
  IF n # 0
  THEN <<"Invalid main.dart: Uninitialized non-nullable field at line ", ToString(n)>>
  ELSE <<>>

\* check_main_rb without the entry-point test
check_main_rb_no_entry(content) ==
  IF ~py_startswith(py_strip(content), <<"import", WS>>)
  THEN <<"Invalid main.dart: Missing import statements">>
  ELSE check_fields_rb(first_uninit_rb(content))

\* lines 238-253
check_main_rb(content) ==
  IF ~py_startswith(py_strip(content), <<"import", WS>>)
  THEN <<"Invalid main.dart: Missing import statements">>
  ELSE IF ~py_in(<<"void", WS, "main()">>, content)
  THEN <<"Invalid main.dart: Missing main() function">>
  ELSE check_fields_rb(first_uninit_rb(content))

\* check_file_rb without the test of line 215
check_file_rb_fence_only(files, filename, content) ==
  IF py_in(<<FENCE>>, content)
  THEN <<"Invalid content in ">> \o filename \o <<": Contains markdown code block markers">>
  ELSE IF filename = K_PUB THEN check_manifest_rb(files, yaml_safe_load(content))
  ELSE IF filename = K_MAIN THEN check_main_rb(content)
  ELSE <<>>

\* lines 211-253: the checks on one entry of files; <<>> when it passes
check_file_rb(files, filename, content) ==
  IF py_in(<<FENCE>>, content)
  THEN <<"Invalid content in ">> \o filename \o <<": Contains markdown code block markers">>
  ELSE IF py_in(<<FNMARK>>, content)
  THEN <<"Invalid content in ">> \o filename \o <<": Contains filename markers">>
  ELSE IF filename = K_PUB THEN check_manifest_rb(files, yaml_safe_load(content))
  ELSE IF filename = K_MAIN THEN check_main_rb(content)
  ELSE <<>>

\* the loop over files.items(), in insertion order: the first error
RECURSIVE validate_items_rb(_, _)
first_error_rb(e, files, i) == IF e # <<>> THEN e ELSE validate_items_rb(files, i + 1)

validate_items_rb(files, i) ==
  IF i > Len(files) THEN <<>>
  ELSE first_error_rb(check_file_rb(files, files[i][1], files[i][2]), files, i)

validate_files_rb(files) == validate_items_rb(files, 1)

\* lines 255: the mapping, unless the loop returned an error
validated_rb(files, e) == IF e # <<>> THEN Err(e) ELSE Ok(files)

\* lines 204-255
checked_rb(files) ==
  IF ~dict_has(files, K_MAIN) THEN Err(<<"Missing required file: ">> \o K_MAIN)
  ELSE IF ~dict_has(files, K_PUB) THEN Err(<<"Missing required file: ">> \o K_PUB)
  ELSE validated_rb(files, validate_files_rb(files))

parse_generated_code_rb(generated_text) ==
  checked_rb(scan_rb(ScanInit, py_split(generated_text, NL)).files)

\* ------------------------------------------------------------------------
\* parse_generated_code, live_backend.py
\* ------------------------------------------------------------------------
DEFAULT_PUBSPEC ==
  py_join(<<
    <<"name:", WS, "idea_forge_generated_app">>,
    <<"description:", WS, "A new Flutter project generated by Idea Forge.">>,
    <<"publish_to:", WS, "'none'">>,
    <<>>,
    <<"version:", WS, "1.0.0+1">>,
    <<>>,
    <<"environment:">>,
    <<WS, WS, "sdk:", WS, "'>=2.19.0 <4.0.0'">>,
    <<>>,
    <<"dependencies:">>,
    <<WS, WS, "flutter:">>,
    <<WS, WS, WS, WS, "sdk:", WS, "flutter">>,
    <<WS, WS, "cupertino_icons:", WS, "^1.0.2">>,
    <<>>,
    <<"dev_dependencies:">>,
    <<WS, WS, "flutter_test:">>,
    <<WS, WS, WS, WS, "sdk:", WS, "flutter">>,
    <<WS, WS, "flutter_lints:", WS, "^2.0.0">>,
    <<>>,
    <<"flutter:">>,
    <<WS, WS, "uses-material-design:", WS, "true">> >>, NL)

\* lines 115-131: the content of one part
part_content_lb(lines) ==
  IF Len(lines) > 1
  THEN LET code_block == py_strip(lines[2])
       IN IF py_startswith(code_block, <<FENCE>>)
          THEN LET start_idx == py_find(code_block, NL) + 1
                   end_idx == py_rfind(code_block, FENCE)
               IN IF end_idx = -1
                  THEN py_strip(py_slice(code_block, start_idx, Len(code_block)))
                  ELSE py_strip(py_slice(code_block, start_idx, end_idx))
          ELSE py_strip(code_block)
  ELSE <<>>

\* lines 133-138
store_key_lb(filename) ==
  IF filename \in {K_MAIN, K_PUB} THEN filename
  ELSE IF py_in(K_MAIN, filename) THEN K_MAIN
  ELSE IF py_in(K_PUB, filename) THEN K_PUB
  ELSE <<>>

RECURSIVE parts_lb(_, _)
parts_lb(files, parts) ==
  IF parts = <<>> THEN files
  ELSE LET part == Head(parts)
       IN IF py_strip(part) = <<>> THEN parts_lb(files, Tail(parts))
          ELSE LET lines == py_split1(py_strip(part), NL)
                   filename == py_strip(lines[1])
                   k == store_key_lb(filename)
               IN parts_lb(IF k # <<>> THEN dict_put(files, k, part_content_lb(lines))
                           ELSE files,
                           Tail(parts))

\* the except branch (lines 168-194) is not reachable for a str argument
parse_generated_code_lb(generated_text) ==
  LET f1 == parts_lb(<<>>, py_split(generated_text, FNMARK))
      f2 == IF /\ ~dict_has(f1, K_MAIN)
               /\ ~py_in(<<"name:">>, generated_text)
               /\ \/ py_in(<<"void", WS, "main()">>, generated_text)
                  \/ py_in(<<"MaterialApp">>, generated_text)
            THEN dict_put(f1, K_MAIN, generated_text)
            ELSE f1
      f3 == IF ~dict_has(f2, K_PUB) THEN dict_put(f2, K_PUB, DEFAULT_PUBSPEC) ELSE f2
  IN Ok(f3)

\* ------------------------------------------------------------------------
\* validate_and_fix_dart_null_safety, live_backend_real_build.py
\* ------------------------------------------------------------------------
NonNullableTypes ==
  <<"double", "int", "String", "bool", "Color", "List<", "Map<",
    "Widget", "BuildContext", "State<", "Key", "Duration">>

FixKeywords == {"void", "return", "if", "for", "while"}

\* lines 438-444: the types for which the line is reported
flagged_types(line) ==
  {t \in 1..Len(NonNullableTypes) :
     /\ py_in(<<NonNullableTypes[t], WS>>, line)
     /\ ~py_in(<<"?">>, line) /\ ~py_in(<<"=">>, line) /\ ~py_in(<<"required">>, line)
     /\ py_in(<<";">>, line)
     /\ ~\E kw \in FixKeywords : py_in(<<kw>>, line)}

\* fixed_line stripping both ends
fixed_line_strip(line0) == py_strip(line0)

\* the line as it is appended to fixed_lines (line 429)
fixed_line(line0) == py_rstrip(line0)

RECURSIVE fix_lines(_, _, _)
fix_lines(lines, i, acc) ==
  IF i > Len(lines) THEN acc
  ELSE LET line == fixed_line(lines[i])
           skip == \E p \in SkipPrefixes : py_startswith(py_strip(line), p)
           n == IF skip THEN 0 ELSE Cardinality(flagged_types(line))
       IN fix_lines(lines, i + 1,
                    [fixed_lines |-> Append(acc.fixed_lines, line),
                     errors |-> acc.errors \o [k \in 1..n |-> i]])

NsNotRun == [done |-> FALSE, success |-> FALSE, content |-> <<>>, errors |-> <<>>]

validate_and_fix_dart_null_safety(content) ==
  LET r == fix_lines(py_split(content, NL), 1, [fixed_lines |-> <<>>, errors |-> <<>>])
  IN IF r.errors # <<>>
     THEN [done |-> TRUE, success |-> FALSE, content |-> content, errors |-> r.errors]
     ELSE [done |-> TRUE, success |-> TRUE, content |-> py_join(r.fixed_lines, NL),
           errors |-> <<>>]

\* ------------------------------------------------------------------------
\* The extractor applied to bounded model outputs
\* ------------------------------------------------------------------------
ExtractIdle ==
  /\ segs = <<>>
  /\ raw = <<>>
  /\ rbOut = NotRun
  /\ lbOut = NotRun
  /\ nsOut = NsNotRun

ValidateIdle ==
  /\ fs = <<>>
  /\ vOut = [done |-> FALSE, error |-> <<>>]

\* ------------------------------------------------------------------------
\* The remote repository and update_github_repository
\* ------------------------------------------------------------------------
P_MAIN == <<"lib/", "main.dart">>
P_BUILD == <<"cloudbuild.yaml">>
P_README == <<"README.md">>
RepoPaths == {P_MAIN, K_PUB, P_BUILD, P_README, K_LOGO}

NoFile == <<"<no file>">>
EmptyTree == [p \in RepoPaths |-> NoFile]

GoodMain == py_join(<<L_IMPORT, L_ENTRY, L_FIELD_INIT>>, NL)
SmallMain == py_join(<<L_IMPORT, L_ENTRY>>, NL)
AssetPub ==
  py_join(<<L_NAME, <<"flutter:">>, <<WS, WS, "assets:">>,
            <<WS, WS, WS, WS, "-", WS>> \o K_LOGO>>, NL)

\* the file sets handed to the publisher
PublishSets ==
  {<<<<K_MAIN, GoodMain>>, <<K_PUB, L_NAME>>>>,
   <<<<K_MAIN, SmallMain>>, <<K_PUB, L_NAME>>>>,
   <<<<K_MAIN, GoodMain>>, <<K_PUB, AssetPub>>, <<K_LOGO, <<"PNG">>>>>>}

\* the default branch before any publish: the build descriptor and a
\* readme, with or without an application already in place
InfraTree ==
  [EmptyTree EXCEPT ![P_BUILD] = <<"steps:">>, ![P_README] = <<"IdeaForge">>]

DefaultTrees ==
  {InfraTree, [InfraTree EXCEPT ![P_MAIN] = GoodMain, ![K_PUB] = L_NAME]}

\* the steps of the call that can fail
GitSteps == {"clone", "checkout", "write", "add", "status", "commit", "push"}

\* how a call can go wrong: a step raises, or the token or the repository
\* URL is not configured ("config"); "none": nothing goes wrong
Failures == GitSteps \cup {"none", "config"}

HeadTree(b) == trees[branches[b]]

\* lines 272-287: where an entry is written (<<>>: skipped)
file_path_rb(filename) ==
  IF filename = K_MAIN THEN <<"lib/">> \o filename
  ELSE IF filename = K_PUB THEN filename
  ELSE IF py_startswith(filename, <<"assets/">>) THEN filename
  ELSE <<>>

RECURSIVE write_files_rb(_, _)
write_files_rb(tree, files) ==
  IF files = <<>> THEN tree
  ELSE write_files_rb(
         IF file_path_rb(files[1][1]) # <<>>
         THEN [tree EXCEPT ![file_path_rb(files[1][1])] = files[1][2]]
         ELSE tree,
         Tail(files))

\* live_backend.py lines 209-216: everything but cloudbuild.yaml is removed
clear_tree_lb(tree) == [p \in RepoPaths |-> IF p = P_BUILD THEN tree[p] ELSE NoFile]

\* live_backend.py lines 224-229
file_path_lb(filename) ==
  IF filename = K_MAIN THEN <<"lib/">> \o filename ELSE filename

\* open() of a path whose directory was cleared raises
write_raises_lb(files) ==
  \E i \in 1..Len(files) : files[i][1] # K_MAIN /\ Len(files[i][1]) > 1

RECURSIVE write_files_lb(_, _)
write_files_lb(tree, files) ==
  IF files = <<>> THEN tree
  ELSE write_files_lb([tree EXCEPT ![file_path_lb(files[1][1])] = files[1][2]], Tail(files))

\* the finally clause without effect after the 'no changes' return
finally_rmtree_skipping(dirs, d, msg) ==
  IF msg = "No changes to commit." THEN dirs ELSE dirs \ {d}

\* lines 315-317: the finally clause
finally_rmtree(dirs, d, msg) == dirs \ {d}

PubEntry(impl, files, ok, msg, pushed, commit) ==
  [impl |-> impl, files |-> files, ok |-> ok, msg |-> msg,
   pushed |-> pushed, commit |-> commit]

\* what a call that fails at a step returns (lines 307-314)
fail_msg(step) ==
  IF step = "config" THEN "GitHub PAT or Repository URL not configured."
  ELSE IF step = "write" THEN "Error updating GitHub repository"
  ELSE "Git operation failed"

PublishReturns(impl, files, d, dirs, ok, msg, pushed, commit) ==
  /\ tempDirs' = finally_rmtree(dirs, d, msg)
  /\ pubLog' = Append(pubLog, PubEntry(impl, files, ok, msg, pushed, commit))

\* update_github_repository, live_backend_real_build.py lines 258-317.
\* fail: the step that raises ("none": no step does); left: whether a
\* failed clone leaves the directory behind.
update_github_repository_rb(files, fail, left) ==
  LET d == Len(pubLog) + 1
      cloned == tempDirs \cup {d}
      wc == write_files_rb(HeadTree("default"), files)
      c == Len(trees) + 1
  IN IF fail = "config"
     THEN /\ pubLog' = Append(pubLog, PubEntry("rb", files, FALSE, fail_msg(fail), "none", 0))
          /\ UNCHANGED <<branches, trees, tempDirs>>
     ELSE IF fail = "clone"
     THEN /\ PublishReturns("rb", files, d, IF left THEN cloned ELSE tempDirs,
                            FALSE, fail_msg(fail), "none", 0)
          /\ UNCHANGED <<branches, trees>>
     ELSE IF fail \in {"checkout", "write", "add", "status"}
     THEN /\ PublishReturns("rb", files, d, cloned, FALSE, fail_msg(fail), "none", 0)
          /\ UNCHANGED <<branches, trees>>
     ELSE IF wc = HeadTree("default")
     THEN /\ PublishReturns("rb", files, d, cloned, TRUE, "No changes to commit.", "none", 0)
          /\ UNCHANGED <<branches, trees>>
     ELSE IF fail \in {"commit", "push"}
     THEN /\ PublishReturns("rb", files, d, cloned, FALSE, fail_msg(fail), "none", 0)
          /\ UNCHANGED <<branches, trees>>
     ELSE /\ PublishReturns("rb", files, d, cloned, TRUE,
                            "Successfully updated files in GitHub repository.",
                            "generated-app", c)
          /\ trees' = Append(trees, wc)
          /\ branches' = [branches EXCEPT !["generated-app"] = c]

\* update_github_repository, live_backend.py lines 197-256
update_github_repository_lb(files, fail, left) ==
  LET d == Len(pubLog) + 1
      cloned == tempDirs \cup {d}
      wc == write_files_lb(clear_tree_lb(HeadTree("default")), files)
      c == Len(trees) + 1
  IN IF fail = "config"
     THEN /\ pubLog' = Append(pubLog, PubEntry("lb", files, FALSE, fail_msg(fail), "none", 0))
          /\ UNCHANGED <<branches, trees, tempDirs>>
     ELSE IF fail = "clone"
     THEN /\ PublishReturns("lb", files, d, IF left THEN cloned ELSE tempDirs,
                            FALSE, fail_msg(fail), "none", 0)
          /\ UNCHANGED <<branches, trees>>
     ELSE IF fail = "write" \/ write_raises_lb(files)
     THEN /\ PublishReturns("lb", files, d, cloned, FALSE, fail_msg("write"), "none", 0)
          /\ UNCHANGED <<branches, trees>>
     ELSE IF fail \in {"add", "status", "push"} \/ (fail = "commit" /\ wc # HeadTree("default"))
     THEN /\ PublishReturns("lb", files, d, cloned, FALSE, fail_msg(fail), "none", 0)
          /\ UNCHANGED <<branches, trees>>
     ELSE IF wc = HeadTree("default")
     THEN /\ PublishReturns("lb", files, d, cloned, TRUE, "Successfully pushed to GitHub.",
                            "default", 0)
          /\ UNCHANGED <<branches, trees>>
     ELSE /\ PublishReturns("lb", files, d, cloned, TRUE, "Successfully pushed to GitHub.",
                            "default", c)
          /\ trees' = Append(trees, wc)
          /\ branches' = [branches EXCEPT !["default"] = c]

\* ------------------------------------------------------------------------
\* The build service, the bucket and get_cloud_build_status_and_apk_url
\* ------------------------------------------------------------------------
BUCKET == "ideaforge-apks"
BucketPrefix == <<"gs://", BUCKET, "/">>
ListPrefix == <<"ideaforge-builds/">>

\* locations an artifact of the build results can name
LOC_APK == BucketPrefix \o ListPrefix \o <<"built", ".apk">>
LOC_AAB == BucketPrefix \o ListPrefix \o <<"built", ".aab">>
LOC_ELSEWHERE == <<"gs://", "other-bucket", "/">> \o ListPrefix \o <<"built", ".apk">>
Locations == {LOC_APK, LOC_AAB, LOC_ELSEWHERE}

\* the object names of the bucket, in the order a listing returns them
BlobNames ==
  << ListPrefix \o <<"a1_app-release", ".apk">>,
     ListPrefix \o <<"b2_app-release", ".apk">>,
     ListPrefix \o <<"c3_mapping", ".txt">>,
     <<"other/">> \o <<"z9_app-release", ".apk">> >>

NoBlob == 0

LOG_URL == <<"https://console/log">>
NoUrl == <<NoValue>>

\* blob.generate_signed_url: the URL names the object it was minted for
generate_signed_url(name) == <<"signed:">> \o name

Observation(creds, raises, status, log_url, objects, updated) ==
  [creds |-> creds, raises |-> raises, status |-> status, log_url |-> log_url,
   objects |-> objects, updated |-> updated]

Sample(status, log_url, apk_url, listed, minted) ==
  [status |-> status, log_url |-> log_url, apk_url |-> apk_url,
   listed |-> listed, minted |-> minted]

NoSample == Sample(NoValue, NoUrl, NoUrl, FALSE, {})

\* storage_client.list_blobs(bucket, prefix=...): the positions, in listing
\* order, of the objects whose name starts with the prefix
list_blobs(updated, prefix) ==
  SelectSeq([i \in 1..Len(BlobNames) |-> i],
            LAMBDA i : updated[i] # NoBlob /\ py_startswith(BlobNames[i], prefix))

\* live_backend.py lines 334-339: the scan for the latest .apk
RECURSIVE latest_blob_lb(_, _, _, _)
latest_blob_lb(blobs, updated, latest_blob, latest_time) ==
  IF blobs = <<>> THEN latest_blob
  ELSE IF /\ py_endswith(BlobNames[blobs[1]], <<".apk">>)
          /\ (latest_blob = NoBlob \/ updated[blobs[1]] > latest_time)
       THEN latest_blob_lb(Tail(blobs), updated, blobs[1], updated[blobs[1]])
       ELSE latest_blob_lb(Tail(blobs), updated, latest_blob, latest_time)

\* live_backend.py lines 326-344: the fallback on the bucket listing
listing_fallback_lb(o, latest) ==
  IF latest # NoBlob
  THEN Sample(o.status, o.log_url, generate_signed_url(BlobNames[latest]), TRUE,
              {BlobNames[latest]})
  ELSE Sample(o.status, o.log_url, NoUrl, TRUE, {})

\* live_backend.py lines 312-325: the artifact of the build results.
\* A failing storage call is caught at line 348.
results_artifact_lb(o) ==
  LET apk_path_in_gcs == o.objects[1]
      blob_name == py_slice(apk_path_in_gcs, Len(BucketPrefix), Len(apk_path_in_gcs))
  IN IF ~py_startswith(apk_path_in_gcs, BucketPrefix)
     THEN Sample(o.status, o.log_url, NoUrl, FALSE, {})
     ELSE IF o.raises = "storage" THEN Sample("ERROR", NoUrl, NoUrl, FALSE, {})
     ELSE Sample(o.status, o.log_url, generate_signed_url(blob_name), FALSE, {blob_name})

\* get_cloud_build_status_and_apk_url, live_backend.py lines 291-351
get_cloud_build_status_and_apk_url_lb(o) ==
  IF ~o.creds
  THEN Sample("ERROR", <<"Failed to get GCP credentials.">>, NoUrl, FALSE, {})
  ELSE IF o.raises = "get_build" THEN Sample("ERROR", NoUrl, NoUrl, FALSE, {})
  ELSE IF o.status # "SUCCESS" THEN Sample(o.status, o.log_url, NoUrl, FALSE, {})
  ELSE IF o.objects # <<>> THEN results_artifact_lb(o)
  ELSE IF o.raises = "storage" THEN Sample("ERROR", NoUrl, NoUrl, TRUE, {})
  ELSE listing_fallback_lb(
         o, latest_blob_lb(list_blobs(o.updated, ListPrefix), o.updated, NoBlob, 0))

\* live_backend_real_build.py lines 387-394: the first artifact of the
\* build results that lies in the bucket and ends in .apk (0: none)
first_artifact_rb(objects) ==
  LET hits == {i \in 1..Len(objects) :
                 /\ py_startswith(objects[i], BucketPrefix)
                 /\ py_endswith(objects[i], <<".apk">>)}
  IN IF hits = {} THEN 0 ELSE CHOOSE i \in hits : \A j \in hits : i <= j

\* list_latest_apks, live_backend_real_build.py lines 351-370: the .apk
\* objects of the listing, sorted by name in descending order
list_latest_apks(o) ==
  IF ~o.creds \/ o.raises = "storage" THEN <<>>
  ELSE LET blobs == list_blobs(o.updated, ListPrefix)
           apk_blobs == SelectSeq(blobs, LAMBDA i : py_endswith(BlobNames[i], <<".apk">>))
       IN [k \in 1..Len(apk_blobs) |-> apk_blobs[Len(apk_blobs) + 1 - k]]

\* live_backend_real_build.py lines 397-402
listing_fallback_rb(o, apks) ==
  Sample(o.status, o.log_url,
         IF apks # <<>> THEN generate_signed_url(BlobNames[apks[1]]) ELSE NoUrl,
         TRUE, {BlobNames[apks[k]] : k \in 1..Len(apks)})

\* live_backend_real_build.py lines 385-402
resolve_artifact_rb(o, hit) ==
  IF hit = 0 THEN listing_fallback_rb(o, list_latest_apks(o))
  ELSE IF o.raises = "storage" THEN Sample("ERROR", NoUrl, NoUrl, FALSE, {})
  ELSE LET blob_name == py_slice(o.objects[hit], Len(BucketPrefix), Len(o.objects[hit]))
       IN Sample(o.status, o.log_url, generate_signed_url(blob_name), FALSE, {blob_name})

\* lines 372-410 with the artifact resolved whatever the status
get_cloud_build_status_and_apk_url_rb_any_status(o) ==
  IF ~o.creds
  THEN Sample("ERROR", <<"Failed to get GCP credentials.">>, NoUrl, FALSE, {})
  ELSE IF o.raises = "get_build" THEN Sample("ERROR", NoUrl, NoUrl, FALSE, {})
  ELSE resolve_artifact_rb(o, first_artifact_rb(o.objects))

\* get_cloud_build_status_and_apk_url, live_backend_real_build.py lines 372-410
get_cloud_build_status_and_apk_url_rb(o) ==
  IF ~o.creds
  THEN Sample("ERROR", <<"Failed to get GCP credentials.">>, NoUrl, FALSE, {})
  ELSE IF o.raises = "get_build" THEN Sample("ERROR", NoUrl, NoUrl, FALSE, {})
  ELSE IF o.status # "SUCCESS" THEN Sample(o.status, o.log_url, NoUrl, FALSE, {})
  ELSE resolve_artifact_rb(o, first_artifact_rb(o.objects))

\* no request has reached a status endpoint, no call is under way
HttpIdle == [n |-> 0, req |-> <<"none">>, code |-> 0, body |-> <<>>]
ServiceIdle ==
  /\ http = HttpIdle
  /\ said = <<>>
  /\ callers = <<>>
  /\ heap = <<>>
  /\ hooks = <<>>

PipeIdle ==
  /\ conversation_history = <<>>
  /\ build_statuses = <<>>
  /\ runs = <<>>
  /\ reqs = <<>>

\* the status names of the build service
InProgress == {"PENDING", "QUEUED", "WORKING"}
Statuses == InProgress \cup {"SUCCESS", "FAILURE", "TIMEOUT"}

EmptyBucket == [i \in 1..Len(BlobNames) |-> NoBlob]
NoObservation == Observation(TRUE, "none", NoValue, NoUrl, <<>>, EmptyBucket)

ObjectSeqs == UNION {[1..n -> Locations] : n \in 0..MaxArtifacts}
Buckets == [1..Len(BlobNames) -> 0..MaxTime]
FullBucket == [i \in 1..Len(BlobNames) |-> 1]

\* the observations of a status query: a query that fails, a build that
\* has not succeeded, and a build that succeeded with every combination of
\* named artifacts and bucket contents
ArtifactObs ==
  {Observation(FALSE, "none", "SUCCESS", LOG_URL, <<LOC_APK>>, FullBucket),
   Observation(TRUE, "get_build", "SUCCESS", LOG_URL, <<LOC_APK>>, FullBucket)}
  \cup {Observation(TRUE, "none", st, l, <<LOC_APK>>, FullBucket) :
          st \in Statuses \ {"SUCCESS"}, l \in {LOG_URL, NoUrl}}
  \cup {Observation(TRUE, r, "SUCCESS", LOG_URL, os, b) :
          r \in {"none", "storage"}, os \in ObjectSeqs, b \in Buckets}

JobIdle == [prefix |-> <<>>, tail |-> NoObservation]
PollIdle ==
  [pc |-> "idle", i |-> 0, samples |-> <<>>, sleeps |-> 0, build_status |-> NoValue,
   log_url |-> NoUrl, apk_download_url |-> NoUrl, code |-> 0, error |-> <<>>,
   build_log_url |-> NoUrl]

\* a handler thread before its request arrives
ThreadIdle ==
  [pc |-> "idle", build_id |-> 0, poll |-> PollIdle, code |-> 0, triggered |-> <<>>,
   polled |-> {}, stored |-> {}, reported |-> 0]
ThreadsIdle == [r \in 1..MaxThreads |-> ThreadIdle]

BuildIdle ==
  /\ obs = NoObservation
  /\ sample = NoSample
  /\ job = JobIdle
  /\ poll = PollIdle
  /\ threads = ThreadsIdle
  /\ builds = <<>>

\* the artifacts of the build results are one object for live_backend.py
\* and a list of objects for live_backend_real_build.py
InitArtifact ==
  /\ ExtractIdle
  /\ ValidateIdle
  /\ PipeIdle
  /\ ServiceIdle
  /\ backend \in {"rb", "lb"}
  /\ branches = [b \in {"default", "generated-app"} |-> IF b = "default" THEN 1 ELSE 0]
  /\ trees = <<InfraTree>>
  /\ tempDirs = {}
  /\ pubLog = <<>>
  /\ obs \in ArtifactObs
  /\ backend = "lb" => Len(obs.objects) <= 1
  /\ sample = NoSample
  /\ job = JobIdle
  /\ poll = PollIdle
  /\ threads = ThreadsIdle
  /\ builds = <<>>

QueryStatusRealBuild ==
  /\ backend = "rb"
  /\ sample = NoSample
  /\ sample' = get_cloud_build_status_and_apk_url_rb(obs)
  /\ UNCHANGED <<obs, job, poll, threads, builds, extractVars, validateVars, serviceVars, repoVars,
               pipeVars>>

QueryStatusLive ==
  /\ backend = "lb"
  /\ sample = NoSample
  /\ sample' = get_cloud_build_status_and_apk_url_lb(obs)
  /\ UNCHANGED <<obs, job, poll, threads, builds, extractVars, validateVars, serviceVars, repoVars,
               pipeVars>>

NextArtifact == QueryStatusRealBuild \/ QueryStatusLive

SpecArtifact == InitArtifact /\ [][NextArtifact]_vars

\* ------------------------------------------------------------------------
\* The polling loop of generate_app_real_build, live_backend.py lines 485-517
\* ------------------------------------------------------------------------
max_polls == 20

\* what the successive queries of a run can be shown
PollObs ==
  {Observation(TRUE, "none", "PENDING", NoUrl, <<>>, EmptyBucket),
   Observation(TRUE, "none", "QUEUED", LOG_URL, <<>>, EmptyBucket),
   Observation(TRUE, "none", "WORKING", LOG_URL, <<>>, EmptyBucket),
   Observation(TRUE, "none", "SUCCESS", LOG_URL, <<LOC_APK>>, EmptyBucket),
   Observation(TRUE, "none", "SUCCESS", LOG_URL, <<>>, EmptyBucket),
   Observation(TRUE, "none", "FAILURE", LOG_URL, <<>>, EmptyBucket),
   Observation(TRUE, "get_build", "WORKING", LOG_URL, <<>>, EmptyBucket),
   Observation(FALSE, "none", "WORKING", LOG_URL, <<>>, EmptyBucket)}

\* a job shows the observations of its prefix, then its tail for ever
Jobs ==
  {[prefix |-> pre, tail |-> t] :
     pre \in UNION {[1..n -> PollObs] : n \in 0..MaxPrefix}, t \in PollObs}

job_shows(j, k) == IF k <= Len(j.prefix) THEN j.prefix[k] ELSE j.tail

\* line 496 with any status but SUCCESS taken as in progress
poll_breaks_on_success(build_status) == build_status = "SUCCESS"

\* line 496: the statuses that end the loop
poll_breaks(build_status) == build_status \notin InProgress

\* line 492 with one more round
poll_loop_runs_once_more(i) == i <= max_polls

\* line 492: for i in range(max_polls)
poll_loop_runs(i) == i < max_polls

\* lines 486-490: the locals before the loop
PollStart ==
  [pc |-> "loop", i |-> 0, samples |-> <<>>, sleeps |-> 0, build_status |-> "WORKING",
   log_url |-> NoUrl, apk_download_url |-> NoUrl, code |-> 0, error |-> <<>>,
   build_log_url |-> NoUrl]

\* line 494: time.sleep(poll_interval)
poll_sleep(p) == [p EXCEPT !.pc = "sample", !.sleeps = @ + 1]

\* lines 495-497: the sample and the test that ends the loop
poll_sample(p, smp) ==
  [p EXCEPT !.samples = Append(@, smp),
            !.build_status = smp.status,
            !.log_url = smp.log_url,
            !.apk_download_url = smp.apk_url,
            !.i = IF poll_breaks(smp.status) THEN @ ELSE @ + 1,
            !.pc = IF poll_breaks(smp.status) THEN "respond" ELSE "loop"]

\* lines 499-517: the response
poll_respond(p) ==
  IF p.build_status = "SUCCESS" /\ p.apk_download_url # NoUrl
  THEN [p EXCEPT !.pc = "done", !.code = 200, !.build_log_url = p.log_url]
  ELSE [p EXCEPT !.pc = "done", !.code = 500,
                 !.error = <<"Build failed or timed out. Status: ", p.build_status>>,
                 !.build_log_url = p.log_url]

\* lines 485-517 run to the response for the job j
RECURSIVE poll_loop(_, _)
poll_loop(j, p) ==
  IF p.pc = "done" THEN p
  ELSE IF p.pc = "sample"
  THEN poll_loop(j, poll_sample(p, get_cloud_build_status_and_apk_url_lb(
                                     job_shows(j, Len(p.samples) + 1))))
  ELSE IF p.pc = "loop" /\ poll_loop_runs(p.i) THEN poll_loop(j, poll_sleep(p))
  ELSE poll_loop(j, poll_respond(p))

InitPoll ==
  /\ ExtractIdle
  /\ ValidateIdle
  /\ PipeIdle
  /\ ServiceIdle
  /\ backend = "lb"
  /\ branches = [b \in {"default", "generated-app"} |-> IF b = "default" THEN 1 ELSE 0]
  /\ trees = <<InfraTree>>
  /\ tempDirs = {}
  /\ pubLog = <<>>
  /\ obs = NoObservation
  /\ sample = NoSample
  /\ job \in Jobs
  /\ poll = PollStart
  /\ threads = ThreadsIdle
  /\ builds = <<>>

PollSleep ==
  /\ poll.pc = "loop"
  /\ poll_loop_runs(poll.i)
  /\ poll' = poll_sleep(poll)
  /\ UNCHANGED <<obs, sample, job, threads, builds, extractVars, validateVars, serviceVars, repoVars,
               pipeVars>>

PollSample ==
  /\ poll.pc = "sample"
  /\ obs' = job_shows(job, Len(poll.samples) + 1)
  /\ sample' = get_cloud_build_status_and_apk_url_lb(obs')
  /\ poll' = poll_sample(poll, sample')
  /\ UNCHANGED <<job, threads, builds, extractVars, validateVars, serviceVars, repoVars, pipeVars>>

PollRespond ==
  /\ \/ poll.pc = "respond"
     \/ poll.pc = "loop" /\ ~poll_loop_runs(poll.i)
  /\ poll' = poll_respond(poll)
  /\ UNCHANGED <<obs, sample, job, threads, builds, extractVars, validateVars, serviceVars, repoVars,
               pipeVars>>

NextPoll == PollSleep \/ PollSample \/ PollRespond

SpecPoll == InitPoll /\ [][NextPoll]_vars

\* the handler's thread is scheduled, and a sleep and a query return
SpecPollFair == SpecPoll /\ WF_vars(NextPoll)

RepoIdle ==
  /\ PipeIdle
  /\ ServiceIdle
  /\ BuildIdle
  /\ backend = "rb"
  /\ branches = [b \in {"default", "generated-app"} |-> IF b = "default" THEN 1 ELSE 0]
  /\ trees = <<InfraTree>>
  /\ tempDirs = {}
  /\ pubLog = <<>>

InitPublish ==
  /\ ExtractIdle
  /\ PipeIdle
  /\ ServiceIdle
  /\ BuildIdle
  /\ ValidateIdle
  /\ backend \in {"rb", "lb"}
  /\ branches = [b \in {"default", "generated-app"} |-> IF b = "default" THEN 1 ELSE 0]
  /\ \E t \in DefaultTrees : trees = <<t>>
  /\ tempDirs = {}
  /\ pubLog = <<>>

PublishRealBuild ==
  /\ backend = "rb"
  /\ Len(pubLog) < MaxPublishes
  /\ \E files \in PublishSets, fail \in Failures, left \in BOOLEAN :
       update_github_repository_rb(files, fail, left)
  /\ UNCHANGED <<backend, extractVars, validateVars, serviceVars, pipeVars, buildVars>>

PublishLive ==
  /\ backend = "lb"
  /\ Len(pubLog) < MaxPublishes
  /\ \E files \in PublishSets, fail \in Failures, left \in BOOLEAN :
       update_github_repository_lb(files, fail, left)
  /\ UNCHANGED <<backend, extractVars, validateVars, serviceVars, pipeVars, buildVars>>

NextPublish == PublishRealBuild \/ PublishLive

SpecPublish == InitPublish /\ [][NextPublish]_vars

SegKinds ==
  {"comment", "mainWF", "pubWF", "mainTagged", "pubTagged", "mainOpen",
   "mainBare", "colorTagged"}

SegText(k) ==
  CASE k = "comment" -> L_COMMENT
    [] k = "mainWF" ->
         py_join(<<<<FNMARK, WS, "main.dart">>, <<FENCE, "dart">>>>
                 \o MainLinesRaw \o <<<<FENCE>>>>, NL)
    [] k = "pubWF" ->
         py_join(<<<<FNMARK, WS, "pubspec.yaml">>, <<FENCE, "yaml">>>>
                 \o PubLinesRaw \o <<<<FENCE>>>>, NL)
    [] k = "mainTagged" ->
         py_join(<<<<FENCE, "dart", ":", "main.dart">>>> \o MainLinesRaw \o <<<<FENCE>>>>, NL)
    [] k = "pubTagged" ->
         py_join(<<<<FENCE, "yaml", ":", "pubspec.yaml">>>> \o PubLinesRaw \o <<<<FENCE>>>>, NL)
    [] k = "mainOpen" ->
         py_join(<<<<FENCE, "dart", ":", "main.dart">>>> \o MainLinesRaw, NL)
    [] k = "mainBare" ->
         py_join(<<<<FNMARK, WS, "main.dart">>>> \o MainLinesRaw, NL)
    [] k = "colorTagged" ->
         py_join(<<<<FENCE, "dart", ":", "main.dart">>>> \o ColorLinesRaw \o <<<<FENCE>>>>, NL)
    [] k = "libMainTagged" ->
         py_join(<<<<FENCE, "dart", ":", "lib/", "main.dart">>>> \o MainLinesRaw
                 \o <<<<FENCE>>>>, NL)
    [] k = "assetTagged" ->
         py_join(<<<<FENCE, "txt", ":">> \o K_LOGO, <<"PNG">>, <<FENCE>>>>, NL)
    [] k = "otherTagged" ->
         py_join(<<<<FENCE, "dart", ":", "utils.dart">>, L_CLASS, <<FENCE>>>>, NL)
    [] k = "assetWF" ->
         py_join(<<<<FNMARK, WS>> \o K_LOGO, <<FENCE, "txt">>, <<"PNG">>, <<FENCE>>>>, NL)

RenderSegs(ss) == py_join([i \in 1..Len(ss) |-> SegText(ss[i])], NL)

SegSeqs == UNION {[1..n -> SegKinds] : n \in 0..MaxSegs}

InitExtract ==
  /\ segs \in SegSeqs
  /\ raw = RenderSegs(segs)
  /\ rbOut = NotRun
  /\ lbOut = NotRun
  /\ nsOut = NsNotRun
  /\ ValidateIdle
  /\ RepoIdle

\* generate_app_real_build, line 467
ParseRealBuild ==
  /\ ~rbOut.done
  /\ rbOut' = parse_generated_code_rb(raw)
  /\ UNCHANGED <<segs, raw, lbOut, nsOut, validateVars, serviceVars, repoVars, pipeVars, buildVars>>

\* generate_app_real_build of live_backend.py, line 463
ParseLive ==
  /\ ~lbOut.done
  /\ lbOut' = parse_generated_code_lb(raw)
  /\ UNCHANGED <<segs, raw, rbOut, nsOut, validateVars, serviceVars, repoVars, pipeVars, buildVars>>

\* generate_app_real_build, lines 472-476
FixNullSafety ==
  /\ rbOut.done /\ rbOut.ok
  /\ ~nsOut.done
  /\ nsOut' = validate_and_fix_dart_null_safety(dict_get(rbOut.files, K_MAIN))
  /\ rbOut' = IF nsOut'.success
              THEN [rbOut EXCEPT !.files = dict_put(@, K_MAIN, nsOut'.content)]
              ELSE rbOut
  /\ UNCHANGED <<segs, raw, lbOut, validateVars, serviceVars, repoVars, pipeVars, buildVars>>

NextExtract == ParseRealBuild \/ ParseLive \/ FixNullSafety

SpecExtract == InitExtract /\ [][NextExtract]_vars

\* the two parsers on model outputs with blocks of further file names: a
\* path to main.dart, an asset, a file that is neither
ScanKinds ==
  {"comment", "mainTagged", "pubTagged", "mainOpen", "mainWF", "pubWF",
   "libMainTagged", "assetTagged", "otherTagged", "assetWF"}

ScanSegSeqs == UNION {[1..n -> ScanKinds] : n \in 0..MaxScanSegs}

InitScan ==
  /\ segs \in ScanSegSeqs
  /\ raw = RenderSegs(segs)
  /\ rbOut = NotRun
  /\ lbOut = NotRun
  /\ nsOut = NsNotRun
  /\ ValidateIdle
  /\ RepoIdle

NextScan == ParseRealBuild \/ ParseLive

SpecScan == InitScan /\ [][NextScan]_vars


\* ------------------------------------------------------------------------
\* The validation loop applied to bounded file sets.  The contents are
\* what the scanner can store: joined, right-stripped lines of a block,
\* none of them a fence line.
\* ------------------------------------------------------------------------
MainBodies ==
  {py_join(<<L_IMPORT, L_ENTRY, L_FIELD_INIT>>, NL),
   py_join(<<L_IMPORT, L_CLASS>>, NL),
   py_join(<<L_ENTRY, L_FIELD_INIT>>, NL),
   py_join(<<L_IMPORT, L_ENTRY, L_FIELD_UNINIT>>, NL),
   py_join(<<L_IMPORT, L_ENTRY, L_LEAK>>, NL),
   py_join(<<L_IMPORT, L_ENTRY, <<"//", WS, FENCE>>>>, NL),
   py_join(<<L_IMPORT, L_ENTRY, L_FIELD_INIT, L_FIELD_UNINIT, L_FIELD_UNINIT>>, NL),
   py_join(<<L_IMPORT, L_ENTRY,
             <<"class", WS, "App", WS, "{", WS, "int", WS, "count", ";", WS, "}">>>>, NL)}

PubBodies ==
  {py_join(<<L_NAME>>, NL),
   py_join(<<L_NAME, <<"flutter:">>, <<WS, WS, "assets:">>,
             <<WS, WS, WS, WS, "-", WS>> \o K_LOGO>>, NL),
   py_join(<<<<"name:", WS, "[", "app">>>>, NL),
   py_join(<<L_NAME, <<"flutter:">>>>, NL),
   py_join(<<L_NAME, <<"flutter:">>, <<WS, WS, "assets:">>,
             <<WS, WS, WS, WS, "-", WS, "images/", "logo.png">>>>, NL)}

AssetBodies == {<<"PNG">>, L_LEAK}

FileSets ==
  {<<<<K_MAIN, m>>, <<K_PUB, p>>>> : m \in MainBodies, p \in PubBodies}
  \cup {<<<<K_PUB, p>>, <<K_MAIN, m>>>> : m \in MainBodies, p \in PubBodies}
  \cup {<<<<K_MAIN, m>>, <<K_PUB, p>>, <<K_LOGO, a>>>> :
          m \in MainBodies, p \in PubBodies, a \in AssetBodies}
  \cup {<<<<K_LOGO, a>>, <<K_PUB, p>>, <<K_MAIN, m>>>> :
          m \in MainBodies, p \in PubBodies, a \in AssetBodies}

InitValidate ==
  /\ ExtractIdle
  /\ RepoIdle
  /\ fs \in FileSets
  /\ vOut = [done |-> FALSE, error |-> <<>>]

\* parse_generated_code, lines 211-255, on the scanned files
ValidateFiles ==
  /\ ~vOut.done
  /\ vOut' = [done |-> TRUE, error |-> validate_files_rb(fs)]
  /\ UNCHANGED <<fs, extractVars, serviceVars, repoVars, pipeVars, buildVars>>

NextValidate == ValidateFiles

SpecValidate == InitValidate /\ [][NextValidate]_vars

\* ------------------------------------------------------------------------
\* The pipeline: generate_app_real_build of the two backends
\* ------------------------------------------------------------------------
\* the conversation id the requests carry
USER == <<"default_user">>
PROMPT == <<"build me an app">>
NoFiles == <<>>

Requests == {"ok", "noprompt", "nobody"}
ApiOutcomes == {"ok", "error"}
TriggerOutcomes == {"ok", "nocreds", "error"}
Turn(role, content) == [role |-> role, content |-> content]

\* lines 78 and 127-130: the two turns are appended and the last ten kept
history_after(h, user_id, prompt, text) ==
  LET cur == IF dict_has(h, user_id) THEN dict_get(h, user_id) ELSE <<>>
      new == cur \o <<Turn("user", prompt), Turn("assistant", text)>>
  IN dict_put(h, user_id,
              IF Len(new) > 10 THEN SubSeq(new, Len(new) - 9, Len(new)) ELSE new)

\* call_claude_api: a successful call stores the exchange
call_claude_api(api, prompt) ==
  conversation_history' =
    IF api = "ok" THEN history_after(conversation_history, USER, prompt, raw)
    ELSE conversation_history

\* the fields of the JSON body of each return of the two handlers; the
\* fields generated_code and generated_code_from_claude hold generated_text
response_body(impl, stages, code) ==
  IF impl = "rb"
  THEN IF code = 200 THEN {"status", "build_id", "message"} ELSE {"error"}
  ELSE IF (\E k \in 1..Len(stages) : stages[k] = "poll")
  THEN IF code = 200
       THEN {"status", "message", "generated_code_from_claude", "apk_download_url",
             "build_id", "build_log_url", "model_used"}
       ELSE {"error", "generated_code_from_claude", "build_id", "build_log_url",
             "details"}
  ELSE IF (\E k \in 1..Len(stages) : stages[k] = "extract") THEN {"error", "generated_code"}
  ELSE IF code = 200 THEN {"content"}
  ELSE {"error"}

RunEntry(impl, stages, code, files, build_id) ==
  [impl |-> impl, stages |-> stages, code |-> code, files |-> files,
   build_id |-> build_id, body |-> response_body(impl, stages, code)]

Respond(impl, stages, code, files, build_id) ==
  runs' = Append(runs, RunEntry(impl, stages, code, files, build_id))

\* the service numbers the builds it creates
NextBuildId == Cardinality({i \in 1..Len(runs) : runs[i].build_id # 0}) + 1

BuildRecord(status, message, download_url) ==
  [status |-> status, message |-> message, download_url |-> download_url]

\* lines 486-501: the build is triggered and its first status stored
trigger_and_store_rb(files, trig) ==
  IF trig # "ok"
  THEN /\ Respond("rb", <<"generate", "extract", "fix", "publish", "trigger">>,
                  500, files, 0)
       /\ UNCHANGED build_statuses
  ELSE /\ Respond("rb", <<"generate", "extract", "fix", "publish", "trigger">>,
                  200, files, NextBuildId)
       /\ build_statuses' =
            dict_put(build_statuses, <<NextBuildId>>,
                     BuildRecord("PENDING", "Build triggered successfully", NoUrl))

\* lines 480-501
publish_and_build_rb(files) ==
  /\ \E fail \in Failures, left \in BOOLEAN : update_github_repository_rb(files, fail, left)
  /\ IF ~pubLog'[Len(pubLog')].ok
     THEN /\ Respond("rb", <<"generate", "extract", "fix", "publish">>, 500, files, 0)
          /\ UNCHANGED build_statuses
     ELSE \E trig \in TriggerOutcomes : trigger_and_store_rb(files, trig)

\* lines 471-476
fix_and_publish_rb(files, ns) ==
  IF ~ns.success
  THEN /\ Respond("rb", <<"generate", "extract", "fix">>, 400, NoFiles, 0)
       /\ UNCHANGED <<build_statuses, branches, trees, tempDirs, pubLog>>
  ELSE publish_and_build_rb(dict_put(files, K_MAIN, ns.content))

\* lines 466-469
extract_and_publish_rb(parsed) ==
  IF ~parsed.ok
  THEN /\ Respond("rb", <<"generate", "extract">>, 400, NoFiles, 0)
       /\ UNCHANGED <<build_statuses, branches, trees, tempDirs, pubLog>>
  ELSE fix_and_publish_rb(parsed.files,
                          validate_and_fix_dart_null_safety(dict_get(parsed.files, K_MAIN)))

\* generate_app_real_build, live_backend_real_build.py lines 454-505.
\* A request without a body raises at line 458 and is answered by the
\* handler of line 503; one without a prompt goes on with no prompt.
generate_app_real_build_rb(req, api) ==
  IF req = "nobody"
  THEN /\ Respond("rb", <<>>, 500, NoFiles, 0)
       /\ UNCHANGED <<conversation_history, build_statuses, branches, trees,
                      tempDirs, pubLog>>
  ELSE /\ call_claude_api(api, IF req = "ok" THEN PROMPT ELSE <<NoValue>>)
       /\ IF api # "ok"
          THEN /\ Respond("rb", <<"generate">>, 500, NoFiles, 0)
               /\ UNCHANGED <<build_statuses, branches, trees, tempDirs, pubLog>>
          ELSE extract_and_publish_rb(parse_generated_code_rb(raw))

\* the jobs a pipeline run can meet: the same observation at every query
PipeJobs == {[prefix |-> <<>>, tail |-> t] : t \in PollObs}

\* the runs of the polling loop on these jobs
PollRuns == {poll_loop(j, PollStart) : j \in PipeJobs}

\* one status query per sample of the loop
poll_stages(p) == [k \in 1..Len(p.samples) |-> "poll"]

\* lines 475-517 with a second trigger call after a failed one
trigger_and_poll_lb_retrying(files, trig, p) ==
  IF trig # "ok"
  THEN Respond("lb", <<"generate", "extract", "publish", "trigger", "trigger">>,
               500, files, 0)
  ELSE Respond("lb", <<"generate", "extract", "publish", "trigger">> \o poll_stages(p),
               p.code, files, NextBuildId)

\* live_backend.py lines 475-517: the build is triggered and polled
trigger_and_poll_lb(files, trig, p) ==
  IF trig # "ok"
  THEN Respond("lb", <<"generate", "extract", "publish", "trigger">>, 500, files, 0)
  ELSE Respond("lb", <<"generate", "extract", "publish", "trigger">> \o poll_stages(p),
               p.code, files, NextBuildId)

\* lines 468-479 with the push undone when the trigger fails
publish_and_build_lb_rolling_back(files) ==
  \E trig \in TriggerOutcomes :
    IF trig = "ok"
    THEN /\ \E fail \in Failures \ {"config"}, left \in BOOLEAN :
              update_github_repository_lb(files, fail, left)
         /\ IF ~pubLog'[Len(pubLog')].ok
            THEN Respond("lb", <<"generate", "extract", "publish">>, 500, files, 0)
            ELSE \E p \in PollRuns : trigger_and_poll_lb(files, trig, p)
    ELSE /\ ~write_raises_lb(files)
         /\ pubLog' = Append(pubLog, PubEntry("lb", files, TRUE,
                                              "Successfully pushed to GitHub.", "default",
                                              Len(trees) + 1))
         /\ trees' = Append(trees, write_files_lb(clear_tree_lb(HeadTree("default")), files))
         /\ UNCHANGED <<branches, tempDirs>>
         /\ trigger_and_poll_lb(files, trig, PollStart)

\* live_backend.py lines 468-473
publish_and_build_lb(files) ==
  /\ \E fail \in Failures \ {"config"}, left \in BOOLEAN :
       update_github_repository_lb(files, fail, left)
  /\ IF ~pubLog'[Len(pubLog')].ok
     THEN Respond("lb", <<"generate", "extract", "publish">>, 500, files, 0)
     ELSE \E trig \in TriggerOutcomes, p \in PollRuns :
            trigger_and_poll_lb(files, trig, p)

\* live_backend.py lines 462-465
extract_and_publish_lb(files) ==
  IF ~dict_has(files, K_MAIN)
  THEN /\ Respond("lb", <<"generate", "extract">>, 500, NoFiles, 0)
       /\ UNCHANGED <<branches, trees, tempDirs, pubLog>>
  ELSE publish_and_build_lb(files)

\* generate_app_real_build, live_backend.py lines 435-517.  cfg: every
\* setting of line 445 is present.
generate_app_real_build_lb(req, cfg, api) ==
  /\ UNCHANGED build_statuses
  /\ IF req # "ok"
     THEN /\ Respond("lb", <<>>, 400, NoFiles, 0)
          /\ UNCHANGED <<conversation_history, branches, trees, tempDirs, pubLog>>
     ELSE IF ~cfg
     THEN /\ Respond("lb", <<>>, 500, NoFiles, 0)
          /\ UNCHANGED <<conversation_history, branches, trees, tempDirs, pubLog>>
     ELSE /\ call_claude_api(api, PROMPT)
          /\ IF api # "ok"
             THEN /\ Respond("lb", <<"generate">>, 500, NoFiles, 0)
                  /\ UNCHANGED <<branches, trees, tempDirs, pubLog>>
             ELSE IF raw = <<>>
             THEN /\ Respond("lb", <<"generate">>, 200, NoFiles, 0)
                  /\ UNCHANGED <<branches, trees, tempDirs, pubLog>>
             ELSE extract_and_publish_lb(parse_generated_code_lb(raw).files)

PipeSegSeqs == UNION {[1..n -> SegKinds] : n \in 0..MaxPipeSegs}

InitPipeline ==
  /\ segs \in PipeSegSeqs
  /\ raw = RenderSegs(segs)
  /\ rbOut = NotRun
  /\ lbOut = NotRun
  /\ nsOut = NsNotRun
  /\ ValidateIdle
  /\ PipeIdle
  /\ ServiceIdle
  /\ BuildIdle
  /\ backend \in {"rb", "lb"}
  /\ branches = [b \in {"default", "generated-app"} |-> IF b = "default" THEN 1 ELSE 0]
  /\ trees = <<InfraTree>>
  /\ tempDirs = {}
  /\ pubLog = <<>>

GenerateRealBuild ==
  /\ backend = "rb"
  /\ Len(runs) < MaxRuns
  /\ \E req \in Requests :
       /\ reqs' = Append(reqs, req)
       /\ \E api \in ApiOutcomes : generate_app_real_build_rb(req, api)
  /\ UNCHANGED <<backend, extractVars, validateVars, serviceVars, buildVars>>

GenerateLive ==
  /\ backend = "lb"
  /\ Len(runs) < MaxRuns
  /\ \E req \in Requests :
       /\ reqs' = Append(reqs, req)
       /\ \E cfg \in BOOLEAN, api \in ApiOutcomes : generate_app_real_build_lb(req, cfg, api)
  /\ UNCHANGED <<backend, extractVars, validateVars, serviceVars, buildVars>>

NextPipeline == GenerateRealBuild \/ GenerateLive

SpecPipeline == InitPipeline /\ [][NextPipeline]_vars

\* ------------------------------------------------------------------------
\* Concurrent requests: generate_app_real_build from the trigger onwards
\* ------------------------------------------------------------------------
\* the builds of concurrent runs: one succeeds at its second query, one fails
BuildJobs ==
  {[prefix |-> <<Observation(TRUE, "none", "WORKING", LOG_URL, <<>>, EmptyBucket)>>,
    tail |-> Observation(TRUE, "none", "SUCCESS", LOG_URL, <<LOC_APK>>, EmptyBucket)],
   [prefix |-> <<>>,
    tail |-> Observation(TRUE, "none", "FAILURE", LOG_URL, <<>>, EmptyBucket)]}

\* client.create_build: the service creates a build; its id is its number
create_build(bs, r, j) == Append(bs, [owner |-> r, job |-> j, queries |-> 0])

\* client.get_build(id=build_id): the build asked for shows its next observation
get_build(bs, id) == job_shows(bs[id].job, bs[id].queries + 1)

\* line 495 with the newest build of the service in place of the local
queried_build_id_newest(t, bs) == Len(bs)

\* line 495: the build id passed to the status query is the handler's local
queried_build_id(t, bs) == t.build_id

InitBuilds ==
  /\ ExtractIdle
  /\ ValidateIdle
  /\ PipeIdle
  /\ ServiceIdle
  /\ BuildIdle
  /\ backend \in {"rb", "lb"}
  /\ branches = [b \in {"default", "generated-app"} |-> IF b = "default" THEN 1 ELSE 0]
  /\ trees = <<InfraTree>>
  /\ tempDirs = {}
  /\ pubLog = <<>>

\* the request arrives; the stages before the trigger end the run with an
\* error response or let it go on
RunStart(r) ==
  /\ threads[r].pc = "idle"
  /\ \E code \in {0, 400, 500} :
       threads' = [threads EXCEPT ![r].pc = IF code = 0 THEN "trigger" ELSE "done",
                                  ![r].code = code]
  /\ UNCHANGED <<obs, sample, job, poll, builds, extractVars, validateVars, serviceVars, repoVars,
                 pipeVars>>

\* live_backend.py lines 476-479, live_backend_real_build.py lines 486-489
RunTrigger(r) ==
  /\ threads[r].pc = "trigger"
  /\ \E trig \in {"ok", "fail"} :
       IF trig = "ok"
       THEN \E j \in BuildJobs :
              /\ builds' = create_build(builds, r, j)
              /\ threads' =
                   [threads EXCEPT ![r].build_id = Len(builds'),
                                   ![r].triggered = Append(@, Len(builds')),
                                   ![r].poll = IF backend = "lb" THEN PollStart ELSE @,
                                   ![r].pc = IF backend = "lb" THEN "poll" ELSE "store"]
       ELSE /\ threads' = [threads EXCEPT ![r].pc = "done", ![r].code = 500]
            /\ UNCHANGED builds
  /\ UNCHANGED <<obs, sample, job, poll, extractVars, validateVars, serviceVars, repoVars, pipeVars>>

\* live_backend_real_build.py lines 492-495
RunStore(r) ==
  /\ backend = "rb"
  /\ threads[r].pc = "store"
  /\ build_statuses' =
       dict_put(build_statuses, <<threads[r].build_id>>,
                BuildRecord("PENDING", "Build triggered successfully", NoUrl))
  /\ threads' = [threads EXCEPT ![r].stored = @ \cup {threads[r].build_id},
                                ![r].pc = "respond"]
  /\ UNCHANGED <<obs, sample, job, poll, builds, extractVars, validateVars, serviceVars, repoVars,
                 conversation_history, runs, reqs>>

\* live_backend_real_build.py lines 497-501
RunRespondRealBuild(r) ==
  /\ backend = "rb"
  /\ threads[r].pc = "respond"
  /\ threads' = [threads EXCEPT ![r].reported = threads[r].build_id,
                                ![r].code = 200,
                                ![r].pc = "done"]
  /\ UNCHANGED <<obs, sample, job, poll, builds, extractVars, validateVars, serviceVars, repoVars,
                 pipeVars>>

\* live_backend.py lines 492-494
RunPollSleep(r) ==
  /\ threads[r].pc = "poll"
  /\ threads[r].poll.pc = "loop"
  /\ poll_loop_runs(threads[r].poll.i)
  /\ threads' = [threads EXCEPT ![r].poll = poll_sleep(@)]
  /\ UNCHANGED <<obs, sample, job, poll, builds, extractVars, validateVars, serviceVars, repoVars,
                 pipeVars>>

\* live_backend.py lines 495-497
RunPollSample(r) ==
  /\ threads[r].pc = "poll"
  /\ threads[r].poll.pc = "sample"
  /\ LET id == queried_build_id(threads[r], builds)
     IN /\ threads' =
             [threads EXCEPT
                ![r].poll = poll_sample(@, get_cloud_build_status_and_apk_url_lb(
                                             get_build(builds, id))),
                ![r].polled = @ \cup {id}]
        /\ builds' = [builds EXCEPT ![id].queries = @ + 1]
  /\ UNCHANGED <<obs, sample, job, poll, extractVars, validateVars, serviceVars, repoVars, pipeVars>>

\* live_backend.py lines 499-517
RunRespondLive(r) ==
  /\ threads[r].pc = "poll"
  /\ \/ threads[r].poll.pc = "respond"
     \/ threads[r].poll.pc = "loop" /\ ~poll_loop_runs(threads[r].poll.i)
  /\ threads' = [threads EXCEPT ![r].poll = poll_respond(@),
                                ![r].code = poll_respond(threads[r].poll).code,
                                ![r].reported = threads[r].build_id,
                                ![r].pc = "done"]
  /\ UNCHANGED <<obs, sample, job, poll, builds, extractVars, validateVars, serviceVars, repoVars,
                 pipeVars>>

NextBuilds ==
  \E r \in 1..MaxThreads :
    \/ RunStart(r)
    \/ RunTrigger(r)
    \/ RunStore(r)
    \/ RunRespondRealBuild(r)
    \/ RunPollSleep(r)
    \/ RunPollSample(r)
    \/ RunRespondLive(r)

SpecBuilds == InitBuilds /\ [][NextBuilds]_vars

\* ------------------------------------------------------------------------
\* The status endpoints of live_backend_real_build.py: get_build_status
\* and cloud_build_webhook
\* ------------------------------------------------------------------------
\* the build ids the endpoints are asked about; "b9" is never triggered
BuildIds == {"b1", "b2"}
UnknownId == "b9"

Undecodable == <<"<undecodable>">>

\* base64.b64decode(...).decode('utf-8'): the text that was encoded, or an
\* exception for data that is not base64
b64encode(text) == <<"b64">> \o text
b64decode(data) ==
  IF data # <<>> /\ data[1] = "b64" THEN Tail(data) ELSE Undecodable

\* json.dumps and json.loads on objects whose values are strings
RECURSIVE json_members(_)
json_members(d) ==
  IF d = <<>> THEN <<>> ELSE <<d[1][1], d[1][2]>> \o json_members(Tail(d))
json_dumps(d) == <<"{">> \o json_members(d) \o <<"}">>
json_loads(text) ==
  IF /\ Len(text) >= 2
     /\ text[1] = "{"
     /\ text[Len(text)] = "}"
     /\ (Len(text) - 2) % 2 = 0
  THEN [k \in 1..((Len(text) - 2) \div 2) |-> <<text[2 * k], text[2 * k + 1]>>]
  ELSE Undecodable

\* dict.get(key): None for an absent key
py_get(d, k) == IF dict_has(d, k) THEN dict_get(d, k) ELSE NoValue

\* the events the build service publishes, with and without id and status
EventStatuses == {"QUEUED", "WORKING", "SUCCESS", "FAILURE"}
Events ==
  {<<>>}
  \cup {<<<<"id", b>>>> : b \in BuildIds}
  \cup {<<<<"status", st>>>> : st \in EventStatuses}
  \cup {<<<<"id", b>>, <<"status", st>>>> : b \in BuildIds, st \in EventStatuses}

\* the bodies a notification can have: none, one without 'message', one
\* whose message has no data, data that is not base64, data that is not
\* JSON, and the encoded events
Push(data) == <<<<"message", <<<<"data", data>>>>>>>>
Notifications ==
  {<<>>, <<<<"subscription", <<"s">>>>>>, <<<<"message", <<>>>>>>,
   Push(<<"%%%">>), Push(b64encode(<<"not json">>))}
  \cup {Push(b64encode(json_dumps(e))) : e \in Events}

\* what the build service and the bucket show when the webhook asks
HookObs ==
  {Observation(TRUE, "none", "SUCCESS", LOG_URL, <<LOC_APK>>, EmptyBucket),
   Observation(TRUE, "none", "SUCCESS", LOG_URL, <<>>, EmptyBucket),
   Observation(TRUE, "get_build", "SUCCESS", LOG_URL, <<>>, EmptyBucket),
   Observation(TRUE, "none", "WORKING", LOG_URL, <<>>, EmptyBucket)}

Reply(statuses, code, body) == [statuses |-> statuses, code |-> code, body |-> body]

\* lines 507-534 with the URL field for every build that succeeded
get_build_status_url_for_any_success(statuses, build_id) ==
  IF ~dict_has(statuses, <<build_id>>)
  THEN Reply(statuses, 404,
             <<<<"error", "Build ID not found">>, <<"build_id", build_id>>>>)
  ELSE IF dict_get(statuses, <<build_id>>).status = "SUCCESS"
  THEN Reply(statuses, 200,
             <<<<"status", "success">>, <<"build_id", build_id>>,
               <<"download_url", dict_get(statuses, <<build_id>>).download_url>>>>)
  ELSE Reply(statuses, 200,
             <<<<"status", dict_get(statuses, <<build_id>>).status>>,
               <<"build_id", build_id>>>>)

\* get_build_status, lines 507-534
get_build_status(statuses, build_id) ==
  IF ~dict_has(statuses, <<build_id>>)
  THEN Reply(statuses, 404,
             <<<<"error", "Build ID not found">>, <<"build_id", build_id>>>>)
  ELSE IF /\ dict_get(statuses, <<build_id>>).status = "SUCCESS"
          /\ dict_get(statuses, <<build_id>>).download_url # NoUrl
  THEN Reply(statuses, 200,
             <<<<"status", "success">>, <<"build_id", build_id>>,
               <<"download_url", dict_get(statuses, <<build_id>>).download_url>>>>)
  ELSE Reply(statuses, 200,
             <<<<"status", dict_get(statuses, <<build_id>>).status>>,
               <<"build_id", build_id>>>>)

\* lines 557-582 with the status of the sample stored in place of the event's
webhook_store_sampled_status(statuses, build_id, status, o) ==
  IF status # "SUCCESS"
  THEN Reply(dict_put(statuses, <<build_id>>, BuildRecord(status, NoValue, NoUrl)), 200,
             <<<<"status", status>>, <<"build_id", build_id>>>>)
  ELSE IF get_cloud_build_status_and_apk_url_rb(o).apk_url # NoUrl
  THEN Reply(dict_put(statuses, <<build_id>>,
                      BuildRecord(get_cloud_build_status_and_apk_url_rb(o).status, NoValue,
                                  get_cloud_build_status_and_apk_url_rb(o).apk_url)),
             200,
             <<<<"status", "success">>, <<"build_id", build_id>>,
               <<"download_url", get_cloud_build_status_and_apk_url_rb(o).apk_url>>>>)
  ELSE Reply(dict_put(statuses, <<build_id>>,
                      BuildRecord(get_cloud_build_status_and_apk_url_rb(o).status, NoValue,
                                  NoUrl)),
             500,
             <<<<"status", "error">>, <<"build_id", build_id>>,
               <<"error", "APK not found in build artifacts">>>>)

\* lines 557-582: the status is stored, and for SUCCESS the artifact is
\* resolved and its URL added to the record
webhook_store(statuses, build_id, status, o) ==
  IF status # "SUCCESS"
  THEN Reply(dict_put(statuses, <<build_id>>, BuildRecord(status, NoValue, NoUrl)), 200,
             <<<<"status", status>>, <<"build_id", build_id>>>>)
  ELSE IF get_cloud_build_status_and_apk_url_rb(o).apk_url # NoUrl
  THEN Reply(dict_put(statuses, <<build_id>>,
                      BuildRecord(status, NoValue,
                                  get_cloud_build_status_and_apk_url_rb(o).apk_url)),
             200,
             <<<<"status", "success">>, <<"build_id", build_id>>,
               <<"download_url", get_cloud_build_status_and_apk_url_rb(o).apk_url>>>>)
  ELSE Reply(dict_put(statuses, <<build_id>>, BuildRecord(status, NoValue, NoUrl)), 500,
             <<<<"status", "error">>, <<"build_id", build_id>>,
               <<"error", "APK not found in build artifacts">>>>)

\* lines 550-555: the event needs an id and a status
webhook_event(statuses, build_data, o) ==
  IF py_get(build_data, "id") = NoValue \/ py_get(build_data, "status") = NoValue
  THEN Reply(statuses, 400, <<<<"error", "Missing build ID or status">>>>)
  ELSE webhook_store(statuses, py_get(build_data, "id"), py_get(build_data, "status"), o)

\* cloud_build_webhook, lines 536-585; an exception of the decoding is
\* answered by the handler of line 584
cloud_build_webhook(statuses, payload, o) ==
  IF payload = <<>> \/ ~dict_has(payload, "message")
  THEN Reply(statuses, 400, <<<<"error", "Invalid payload format">>>>)
  ELSE IF ~dict_has(dict_get(payload, "message"), "data")
  THEN Reply(statuses, 500, <<<<"error", "'data'">>>>)
  ELSE IF b64decode(dict_get(dict_get(payload, "message"), "data")) = Undecodable
  THEN Reply(statuses, 500, <<<<"error", "Incorrect padding">>>>)
  ELSE IF json_loads(b64decode(dict_get(dict_get(payload, "message"), "data"))) = Undecodable
  THEN Reply(statuses, 500, <<<<"error", "Expecting value">>>>)
  ELSE webhook_event(statuses,
                     json_loads(b64decode(dict_get(dict_get(payload, "message"), "data"))),
                     o)

InitStatus ==
  /\ ExtractIdle
  /\ ValidateIdle
  /\ PipeIdle
  /\ ServiceIdle
  /\ BuildIdle
  /\ backend = "rb"
  /\ branches = [b \in {"default", "generated-app"} |-> IF b = "default" THEN 1 ELSE 0]
  /\ trees = <<InfraTree>>
  /\ tempDirs = {}
  /\ pubLog = <<>>

\* generate_app_real_build, lines 491-495: a run that triggered the build
\* build_id stores its first status
StoreTriggered ==
  /\ \E build_id \in BuildIds :
       /\ ~dict_has(build_statuses, <<build_id>>)
       /\ build_statuses' =
            dict_put(build_statuses, <<build_id>>,
                     BuildRecord("PENDING", "Build triggered successfully", NoUrl))
  /\ UNCHANGED <<conversation_history, runs, reqs, extractVars, validateVars, serviceVars,
                 repoVars, buildVars>>

Answer(kind, arg, r) ==
  /\ build_statuses' = r.statuses
  /\ http' = [n |-> http.n + 1, req |-> <<kind, arg>>, code |-> r.code, body |-> r.body]

GetBuildStatus ==
  /\ http.n < MaxRequests
  /\ \E build_id \in BuildIds \cup {UnknownId} :
       Answer("get", build_id, get_build_status(build_statuses, build_id))
  /\ UNCHANGED <<conversation_history, runs, reqs, said, callers, heap, hooks, extractVars,
                 validateVars, repoVars, buildVars>>

CloudBuildWebhook ==
  /\ http.n < MaxRequests
  /\ \E payload \in Notifications, o \in HookObs :
       Answer("webhook", payload, cloud_build_webhook(build_statuses, payload, o))
  /\ UNCHANGED <<conversation_history, runs, reqs, said, callers, heap, hooks, extractVars,
                 validateVars, repoVars, buildVars>>

NextStatus == StoreTriggered \/ GetBuildStatus \/ CloudBuildWebhook

SpecStatus == InitStatus /\ [][NextStatus]_vars

\* ------------------------------------------------------------------------
\* cloud_build_webhook beside the request handlers: the server runs each
\* request on a thread of its own (app.run, line 606), and the notifications
\* of a build start once create_build has returned
\* ------------------------------------------------------------------------
\* line 558: the record of the build is replaced by the status of the event
webhook_record(statuses, build_id, status) ==
  dict_put(statuses, <<build_id>>, BuildRecord(status, NoValue, NoUrl))

\* lines 561-572: the artifact is resolved and its URL is added to the
\* record the build id has by then
webhook_add_url(statuses, build_id, o) ==
  IF get_cloud_build_status_and_apk_url_rb(o).apk_url # NoUrl
  THEN Reply(dict_put(statuses, <<build_id>>,
                      [dict_get(statuses, <<build_id>>) EXCEPT
                         !.download_url = get_cloud_build_status_and_apk_url_rb(o).apk_url]),
             200,
             <<<<"status", "success">>, <<"build_id", build_id>>,
               <<"download_url", get_cloud_build_status_and_apk_url_rb(o).apk_url>>>>)
  ELSE Reply(statuses, 500,
             <<<<"status", "error">>, <<"build_id", build_id>>,
               <<"error", "APK not found in build artifacts">>>>)

\* a call of cloud_build_webhook after line 558: an event of a build that
\* succeeded goes on to query the service, any other is answered (line 575)
Hook(build_id, status) ==
  [pc |-> IF status = "SUCCESS" THEN "query" ELSE "done", build_id |-> build_id,
   status |-> status, code |-> IF status = "SUCCESS" THEN 0 ELSE 200]

InitHook ==
  /\ ExtractIdle
  /\ ValidateIdle
  /\ PipeIdle
  /\ ServiceIdle
  /\ BuildIdle
  /\ backend = "rb"
  /\ branches = [b \in {"default", "generated-app"} |-> IF b = "default" THEN 1 ELSE 0]
  /\ trees = <<InfraTree>>
  /\ tempDirs = {}
  /\ pubLog = <<>>

\* lines 538-558: the notification of a build the service has created is
\* decoded and its status stored
HookStore ==
  /\ Len(hooks) < MaxHooks
  /\ \E build_id \in 1..Len(builds), status \in EventStatuses :
       /\ build_statuses' = webhook_record(build_statuses, build_id, status)
       /\ hooks' = Append(hooks, Hook(build_id, status))
  /\ UNCHANGED <<conversation_history, runs, reqs, http, said, callers, heap, extractVars,
                 validateVars, repoVars, buildVars>>

\* lines 561-572
HookQuery(h) ==
  /\ hooks[h].pc = "query"
  /\ \E o \in HookObs :
       /\ build_statuses' = webhook_add_url(build_statuses, hooks[h].build_id, o).statuses
       /\ hooks' = [hooks EXCEPT
                      ![h].pc = "done",
                      ![h].code = webhook_add_url(build_statuses, hooks[h].build_id, o).code]
  /\ UNCHANGED <<conversation_history, runs, reqs, http, said, callers, heap, extractVars,
                 validateVars, repoVars, buildVars>>

NextHook ==
  \/ \E r \in 1..MaxThreads :
       \/ RunStart(r)
       \/ RunTrigger(r)
       \/ RunStore(r)
       \/ RunRespondRealBuild(r)
  \/ HookStore
  \/ \E h \in 1..Len(hooks) : HookQuery(h)

SpecHook == InitHook /\ [][NextHook]_vars

\* ------------------------------------------------------------------------
\* The conversation history of call_claude_api.  In the specifications of
\* this section conversation_history maps a conversation id to a reference
\* into heap, as the dict of the interpreter holds references to lists.
\* ------------------------------------------------------------------------
UserIds == {"u1", "u2"}

\* what the model API answers: a text, a reply without content, a reply
\* whose content cannot be read (the body is no object, or the first
\* content block is none), an error
ApiReplies == {"text", "nocontent", "malformed", "error"}

\* the reply makes the call fail before the history is touched: a
\* RequestException, or in live_backend_real_build.py and live_backend.py
\* the AttributeError of lines 124-125, raised before lines 128-130
fails_before_update(reply, impl) ==
  reply = "error" \/ (reply = "malformed" /\ impl # "sim")

\* the prompt of the n-th call
PromptOf(n) == <<"prompt ", ToString(n)>>

\* a call as it enters call_claude_api
Caller(n, uid) ==
  [pc |-> "read", uid |-> uid, prompt |-> PromptOf(n), reply |-> "none",
   text |-> <<>>, cur |-> 0, kept |-> <<>>]

Machine(hist, hp, c) == [hist |-> hist, heap |-> hp, c |-> c]

\* the list a conversation id is bound to ("absent": it is bound to none)
Stored(hist, hp, uid) ==
  IF dict_has(hist, uid) THEN hp[dict_get(hist, uid)] ELSE <<"absent">>

\* line 78 read as a lookup in a table shared by every conversation id
read_history_shared(m, reply, impl) ==
  [m EXCEPT !.heap = IF m.hist # <<>> THEN @ ELSE Append(@, <<>>),
            !.c.cur = IF m.hist # <<>> THEN m.hist[1][2] ELSE Len(m.heap) + 1,
            !.c.reply = reply,
            !.c.text = IF reply = "text" THEN <<"reply ", m.c.prompt[2]>> ELSE <<>>,
            !.c.pc = IF fails_before_update(reply, impl) THEN "failed" ELSE "append_user"]

\* lines 78 and 120-125: current_user_history is the stored list itself,
\* or a new empty list for an id without history; then the request is
\* posted and answered
read_history(m, reply, impl) ==
  [m EXCEPT !.heap = IF dict_has(m.hist, m.c.uid) THEN @ ELSE Append(@, <<>>),
            !.c.cur = IF dict_has(m.hist, m.c.uid) THEN dict_get(m.hist, m.c.uid)
                      ELSE Len(m.heap) + 1,
            !.c.reply = reply,
            !.c.text = IF reply = "text" THEN <<"reply ", m.c.prompt[2]>> ELSE <<>>,
            !.c.pc = IF fails_before_update(reply, impl) THEN "failed" ELSE "append_user"]

\* line 128: the user turn is appended in place.  live_backend_simulated.py
\* appends it (line 73) before it reads the content of the reply (lines
\* 74-76): a malformed reply raises there and the call answers 500 (lines
\* 90-92); a reply without content gets no assistant turn
append_user(m, reply, impl) ==
  [m EXCEPT !.heap[m.c.cur] = Append(@, Turn("user", m.c.prompt)),
            !.c.pc = IF impl = "sim" /\ m.c.reply = "malformed" THEN "failed"
                     ELSE IF impl = "sim" /\ m.c.reply = "nocontent" THEN "slice"
                     ELSE "append_assistant"]

\* line 129
append_assistant(m, reply, impl) ==
  [m EXCEPT !.heap[m.c.cur] = Append(@, Turn("assistant", m.c.text)),
            !.c.pc = "slice"]

\* line 130: current_user_history[-10:]
last_ten(turns) ==
  IF Len(turns) > 10 THEN SubSeq(turns, Len(turns) - 9, Len(turns)) ELSE turns

\* line 130, the right-hand side: a new list of the last ten turns
slice_history(m, reply, impl) ==
  [m EXCEPT !.c.kept = last_ten(m.heap[m.c.cur]), !.c.pc = "assign"]

\* line 130, the assignment: the id is bound to the new list
assign_history(m, reply, impl) ==
  [m EXCEPT !.heap = Append(@, m.c.kept),
            !.hist = dict_put(@, m.c.uid, Len(m.heap) + 1),
            !.c.pc = "done"]

\* one step of a call
call_step(m, reply, impl) ==
  IF m.c.pc = "read" THEN read_history(m, reply, impl)
  ELSE IF m.c.pc = "append_user" THEN append_user(m, reply, impl)
  ELSE IF m.c.pc = "append_assistant" THEN append_assistant(m, reply, impl)
  ELSE IF m.c.pc = "slice" THEN slice_history(m, reply, impl)
  ELSE assign_history(m, reply, impl)

\* a call run from its entry to its return
RECURSIVE call_run(_, _, _)
call_run(m, reply, impl) ==
  IF m.c.pc \in {"done", "failed"} THEN m ELSE call_run(call_step(m, reply, impl), reply, impl)

\* the turns a call adds to the history of its id
Exchange(c, impl) ==
  IF c.pc = "failed" THEN <<>>
  ELSE IF impl = "sim" /\ c.reply = "nocontent" THEN <<Turn("user", c.prompt)>>
  ELSE <<Turn("user", c.prompt), Turn("assistant", c.text)>>

InitHistory ==
  /\ ExtractIdle
  /\ ValidateIdle
  /\ PipeIdle
  /\ ServiceIdle
  /\ BuildIdle
  /\ backend \in {"rb", "lb", "sim"}
  /\ branches = [b \in {"default", "generated-app"} |-> IF b = "default" THEN 1 ELSE 0]
  /\ trees = <<InfraTree>>
  /\ tempDirs = {}
  /\ pubLog = <<>>

\* one call of call_claude_api from entry to return, no other call under way
CallClaude ==
  /\ Len(callers) < MaxCalls
  /\ \E uid \in UserIds, reply \in ApiReplies :
       LET m == call_run(Machine(conversation_history, heap,
                                 Caller(Len(callers) + 1, uid)), reply, backend)
       IN /\ conversation_history' = m.hist
          /\ heap' = m.heap
          /\ callers' = Append(callers, m.c)
          /\ said' = dict_put(said, uid, (IF dict_has(said, uid) THEN dict_get(said, uid) ELSE <<>>) \o Exchange(m.c, backend))
  /\ UNCHANGED <<http, hooks, build_statuses, runs, reqs, extractVars, validateVars, repoVars,
                 buildVars>>

NextHistory == CallClaude

SpecHistory == InitHistory /\ [][NextHistory]_vars

\* the histories the concurrent calls find: each id has none, or one
\* earlier exchange; said keeps them
OldExchange(uid) == <<Turn("user", <<"prompt ", uid>>), Turn("assistant", <<"reply ", uid>>)>>

InitHistoryRace ==
  /\ ExtractIdle
  /\ ValidateIdle
  /\ build_statuses = <<>>
  /\ runs = <<>>
  /\ reqs = <<>>
  /\ http = HttpIdle
  /\ callers = <<>>
  /\ hooks = <<>>
  /\ BuildIdle
  /\ backend \in {"rb", "lb"}
  /\ branches = [b \in {"default", "generated-app"} |-> IF b = "default" THEN 1 ELSE 0]
  /\ trees = <<InfraTree>>
  /\ tempDirs = {}
  /\ pubLog = <<>>
  /\ \E known \in {<<>>, <<"u1">>, <<"u2">>, <<"u1", "u2">>} :
       /\ heap = [i \in 1..Len(known) |-> OldExchange(known[i])]
       /\ conversation_history = [i \in 1..Len(known) |-> <<known[i], i>>]
       /\ said = [i \in 1..Len(known) |-> <<known[i], OldExchange(known[i])>>]

\* a request enters call_claude_api
CallStart ==
  /\ Len(callers) < MaxThreads
  /\ \E uid \in UserIds : callers' = Append(callers, Caller(Len(callers) + 1, uid))
  /\ UNCHANGED <<conversation_history, heap, http, hooks, said, build_statuses, runs, reqs,
                 extractVars, validateVars, repoVars, buildVars>>

\* the thread t executes its next step
CallStep(t, pc) ==
  /\ callers[t].pc = pc
  /\ \E reply \in IF pc = "read" THEN {"text", "error"} ELSE {callers[t].reply} :
       LET m == call_step(Machine(conversation_history, heap, callers[t]), reply, backend)
       IN /\ conversation_history' = m.hist
          /\ heap' = m.heap
          /\ callers' = [callers EXCEPT ![t] = m.c]
  /\ UNCHANGED <<http, hooks, said, build_statuses, runs, reqs, extractVars, validateVars,
                 repoVars, buildVars>>

CallRead == \E t \in 1..Len(callers) : CallStep(t, "read")
CallAppendUser == \E t \in 1..Len(callers) : CallStep(t, "append_user")
CallAppendAssistant == \E t \in 1..Len(callers) : CallStep(t, "append_assistant")
CallSlice == \E t \in 1..Len(callers) : CallStep(t, "slice")
CallAssign == \E t \in 1..Len(callers) : CallStep(t, "assign")

NextHistoryRace ==
  CallStart \/ CallRead \/ CallAppendUser \/ CallAppendAssistant \/ CallSlice \/ CallAssign

SpecHistoryRace == InitHistoryRace /\ [][NextHistoryRace]_vars

\* ------------------------------------------------------------------------
\* Serialized pipeline runs on one repository: generate_app_real_build from
\* the publish stage onwards, one run after the other, each with its own
\* validated file set.  The build a run triggers is started from the head
\* of generated-app (the branch_name of trigger_cloud_build) as the run
\* leaves it.
\* ------------------------------------------------------------------------
InitSerial ==
  /\ ExtractIdle
  /\ PipeIdle
  /\ ServiceIdle
  /\ BuildIdle
  /\ ValidateIdle
  /\ backend \in {"rb", "lb"}
  /\ branches = [b \in {"default", "generated-app"} |-> IF b = "default" THEN 1 ELSE 0]
  /\ \E t \in DefaultTrees : trees = <<t>>
  /\ tempDirs = {}
  /\ pubLog = <<>>

SerialRealBuild ==
  /\ backend = "rb"
  /\ Len(runs) < MaxPublishes
  /\ \E files \in PublishSets : publish_and_build_rb(files)
  /\ UNCHANGED <<backend, conversation_history, reqs, extractVars, validateVars,
                 serviceVars, buildVars>>

SerialLive ==
  /\ backend = "lb"
  /\ Len(runs) < MaxPublishes
  /\ \E files \in PublishSets : publish_and_build_lb(files)
  /\ UNCHANGED <<backend, conversation_history, build_statuses, reqs, extractVars,
                 validateVars, serviceVars, buildVars>>

NextSerial == SerialRealBuild \/ SerialLive

SpecSerial == InitSerial /\ [][NextSerial]_vars

\* ------------------------------------------------------------------------
\* Claims
\* ------------------------------------------------------------------------
CountKind(ss, k) == Cardinality({i \in 1..Len(ss) : ss[i] = k})

\* the lines of a content, trailing blanks aside
BlockLines(content) ==
  LET ls == py_split(content, NL) IN [i \in 1..Len(ls) |-> py_rstrip(ls[i])]

WellFormedPair(ss) ==
  /\ CountKind(ss, "mainWF") = 1
  /\ CountKind(ss, "pubWF") = 1
  /\ \A i \in 1..Len(ss) : ss[i] \in {"mainWF", "pubWF", "comment"}

RecoversBoth(out) ==
  /\ out.ok
  /\ dict_has(out.files, K_MAIN) /\ dict_has(out.files, K_PUB)
  /\ BlockLines(dict_get(out.files, K_MAIN)) = BlockLines(py_join(MainLinesRaw, NL))
  /\ BlockLines(dict_get(out.files, K_PUB)) = BlockLines(py_join(PubLinesRaw, NL))

\* C1: for every text with exactly one well-formed main.dart segment and
\* exactly one well-formed pubspec.yaml segment (a FILENAME: line followed
\* by a fenced block), whatever the commentary around them,
\* parse_generated_code returns a mapping with both keys, each holding the
\* lines of its own block.
C1_ExtractRecoversBoth ==
  WellFormedPair(segs) =>
    /\ rbOut.done => RecoversBoth(rbOut)
    /\ lbOut.done => RecoversBoth(lbOut)

NoFenceLine(text) ==
  LET ls == py_split(text, NL)
  IN \A i \in 1..Len(ls) : ~py_startswith(py_strip(ls[i]), <<FENCE>>)

NamesBothMissing(out) ==
  /\ ~out.ok
  /\ py_in(K_MAIN, out.error)
  /\ py_in(K_PUB, out.error)

\* C2: for any text without a fence line, parse_generated_code fails and
\* the failure names both main.dart and pubspec.yaml as missing.
C2_NoFenceFailsNamingBoth ==
  NoFenceLine(raw) =>
    /\ rbOut.done => NamesBothMissing(rbOut)
    /\ lbOut.done => NamesBothMissing(lbOut)

\* every line of the value is a line of the input (trailing blanks aside)
TakenFromInput(value, text) ==
  LET vl == BlockLines(value)
      tl == BlockLines(text)
  IN \A i \in 1..Len(vl) : \E j \in 1..Len(tl) : vl[i] = tl[j]

MainSegKinds == {"mainWF", "mainTagged", "mainOpen", "mainBare", "colorTagged"}
PubSegKinds == {"pubWF", "pubTagged"}

NoSynthesis(out, ss, text) ==
  /\ out.ok => \A i \in 1..Len(out.files) : TakenFromInput(out.files[i][2], text)
  /\ (\A i \in 1..Len(ss) : ss[i] \notin MainSegKinds) => ~out.ok
  /\ (\A i \in 1..Len(ss) : ss[i] \notin PubSegKinds) => ~out.ok

\* C3: parse_generated_code synthesizes no content: every value it returns
\* is text of the input, and it fails when the input has no main.dart
\* segment or no pubspec.yaml segment.
C3_NoDefaultContent ==
  /\ rbOut.done => NoSynthesis(rbOut, segs, raw)
  /\ lbOut.done => NoSynthesis(lbOut, segs, raw)

EndsInsideNamedBlock(text) ==
  LET st == scan_rb(ScanInit, py_split(text, NL))
  IN st.in_code_block /\ st.current_text # <<>> /\ store_key_rb(st.current_filename) # <<>>

\* C4: end of text closes an open fence: when the text ends inside a
\* fenced block with a recognized filename, the result is the one the
\* same text followed by a closing fence line gives.
C4_EndOfTextClosesFence ==
  (rbOut.done /\ ~nsOut.done /\ EndsInsideNamedBlock(raw)) =>
     rbOut = parse_generated_code_rb(raw \o <<NL, FENCE>>)


HasEntry(f) == py_in(<<"void", WS, "main()">>, dict_get(f, K_MAIN))

StartsWithImport(f) == py_startswith(py_strip(dict_get(f, K_MAIN)), <<"import", WS>>)

LeakedMarkup(f) ==
  \E i \in 1..Len(f) : py_in(<<FENCE>>, f[i][2]) \/ py_in(<<FNMARK>>, f[i][2])

MalformedManifest(f) == yaml_safe_load(dict_get(f, K_PUB)).kind = "error"

\* the asset scan of lines 227-235 raises on an empty document and on an
\* empty flutter: or assets: entry
UnscannableManifest(f) ==
  LET y == yaml_safe_load(dict_get(f, K_PUB))
  IN y.kind = "null" \/ y.flutter = "null" \/ y.assets = "null"

MissingAsset(f) ==
  LET y == yaml_safe_load(dict_get(f, K_PUB))
  IN y.assets = "list" /\ missing_assets_rb(f, y.items) # {}

UninitializedField(f) == first_uninit_rb(dict_get(f, K_MAIN)) # 0

C7_FixPreservesContent ==
  nsOut.done =>
    /\ nsOut.content = dict_get(parse_generated_code_rb(raw).files, K_MAIN)
    /\ rbOut.files = parse_generated_code_rb(raw).files

C7_Witness ==
  /\ nsOut.done
  /\ nsOut.success
  /\ py_in(<<NL, WS, WS, "int">>, dict_get(rbOut.files, K_MAIN))

\* the file set passes every check of the validator (lines 204-253)
PassesValidation(files) == checked_rb(files).ok

\* C6: in every pipeline run, the file set handed to
\* update_github_repository passed all validation checks.
C6_OnlyValidatedPublished ==
  \A i \in 1..Len(runs) :
    runs[i].files # NoFiles => PassesValidation(runs[i].files)

\* C8: every push targets the branch generated-app, never the default
\* branch, and the default branch is what it was before any publish.
C8_PushesOnlyGeneratedBranch ==
  /\ \A i \in 1..Len(pubLog) : pubLog[i].pushed \in {"none", "generated-app"}
  /\ branches["default"] = 1

\* C9: of two consecutive successful calls with the same file set, the
\* second reports 'no changes' and creates no commit.
C9_RepeatedPublishNoChanges ==
  \A i \in 2..Len(pubLog) :
    (pubLog[i].files = pubLog[i-1].files /\ pubLog[i].ok /\ pubLog[i-1].ok) =>
      /\ pubLog[i].msg = "No changes to commit."
      /\ pubLog[i].commit = 0

\* C10: whenever a call of update_github_repository has returned, on
\* whatever exit path, no working copy exists.
C10_WorkingCopyRemoved == tempDirs = {}

\* calls have returned through the 'no changes' return, through a failed
\* git command, through an exception while writing, and with a push
C10_Witness ==
  /\ tempDirs = {}
  /\ \E i \in 1..Len(pubLog) : pubLog[i].msg = "No changes to commit."
  /\ \E i \in 1..Len(pubLog) : pubLog[i].msg = "Git operation failed"
  /\ \E i \in 1..Len(pubLog) : pubLog[i].pushed # "none"

\* the paths under which the entries of a file set are written
WrittenPaths(files) == {file_path_lb(files[i][1]) : i \in 1..Len(files)}

\* C11: a committed tree holds only the allow-listed cloudbuild.yaml and
\* the entries of the file set, and cloudbuild.yaml is left as it was.
C11_CommitsOnlyAllowListAndFileSet ==
  \A i \in 1..Len(pubLog) :
    pubLog[i].commit # 0 =>
      /\ \A p \in RepoPaths :
           trees[pubLog[i].commit][p] # NoFile =>
             p = P_BUILD \/ p \in WrittenPaths(pubLog[i].files)
      /\ trees[pubLog[i].commit][P_BUILD] = trees[1][P_BUILD]

\* the status the k-th query of the job yields
StatusShown(k) == get_cloud_build_status_and_apk_url_lb(job_shows(job, k)).status

\* the first query within the budget whose status is not in progress (0: none)
FirstEnding ==
  LET ends == {k \in 1..max_polls : StatusShown(k) \notin InProgress}
  IN IF ends = {} THEN 0 ELSE CHOOSE k \in ends : \A m \in ends : k <= m

\* C12: the loop stops at the first sample whose status is outside
\* {PENDING, QUEUED, WORKING} and takes no sample after it; the final
\* status is the status of that sample.
C12_StopsAtFirstEndingSample ==
  /\ \A k \in 1..(Len(poll.samples) - 1) : poll.samples[k].status \in InProgress
  /\ (poll.pc = "done" /\ FirstEnding # 0) =>
       /\ Len(poll.samples) = FirstEnding
       /\ poll.build_status = StatusShown(FirstEnding)

\* the samples were PENDING, WORKING, SUCCESS: three samples, final SUCCESS
C12_Witness ==
  /\ poll.pc = "done"
  /\ [k \in 1..Len(poll.samples) |-> poll.samples[k].status]
       = <<"PENDING", "WORKING", "SUCCESS">>
  /\ poll.build_status = "SUCCESS"
  /\ poll.sleeps = 3

\* C13: when every sample of the budget is in progress, the final status
\* the run reports is TIMEOUT.
C13_ExhaustedBudgetReportsTimeout ==
  (/\ poll.pc = "done"
   /\ Len(poll.samples) = max_polls
   /\ \A k \in 1..Len(poll.samples) : poll.samples[k].status \in InProgress) =>
    /\ poll.build_status = "TIMEOUT"
    /\ poll.error = <<"Build failed or timed out. Status: ", "TIMEOUT">>

\* C14: the loop terminates with a response, after at most max_polls
\* samples, each preceded by one sleep.
C14_PollingTerminates ==
  /\ <>(poll.pc = "done")
  /\ [](/\ Len(poll.samples) <= max_polls
        /\ poll.sleeps = Len(poll.samples) + (IF poll.pc = "sample" THEN 1 ELSE 0))

\* a job that stayed in progress used up the budget, and the run returned
C14_Witness ==
  /\ poll.pc = "done"
  /\ Len(poll.samples) = max_polls
  /\ poll.sleeps = max_polls
  /\ poll.code = 500

\* C15: a run that ends in failure or timeout reports a build log URL if
\* any of its samples returned one.
C15_LogUrlOfAnySample ==
  (/\ poll.pc = "done"
   /\ poll.code = 500
   /\ \E k \in 1..Len(poll.samples) : poll.samples[k].log_url # NoUrl) =>
    poll.build_log_url # NoUrl

\* how often a stage appears in the stages a run invoked
StageCount(stages, st) == Cardinality({k \in 1..Len(stages) : stages[k] = st})

\* C17: a run invokes call_claude_api, update_github_repository and
\* trigger_cloud_build at most once each; only the status query is
\* repeated, and no build is triggered once sampling has begun.
C17_OnlySamplingRepeats ==
  /\ Len(pubLog) <= Len(runs)
  /\ \A i \in 1..Len(runs) :
       /\ \A st \in {"generate", "extract", "fix", "publish", "trigger"} :
            StageCount(runs[i].stages, st) <= 1
       /\ \A k \in 1..Len(runs[i].stages) : \A m \in 1..Len(runs[i].stages) :
            (runs[i].stages[k] = "poll" /\ k < m) => runs[i].stages[m] = "poll"

\* a run that went through every stage once and sampled max_polls times
C17_Witness ==
  \E i \in 1..Len(runs) :
    /\ StageCount(runs[i].stages, "poll") = max_polls
    /\ StageCount(runs[i].stages, "trigger") = 1
    /\ StageCount(runs[i].stages, "publish") = 1
    /\ StageCount(runs[i].stages, "generate") = 1

\* the stages of a backend in their order; live_backend.py has no fix stage
StageOrder(impl) ==
  IF impl = "rb" THEN <<"generate", "extract", "fix", "publish", "trigger">>
  ELSE <<"generate", "extract", "publish", "trigger">>

\* the stages before the first status query
BeforePolling(stages) == SelectSeq(stages, LAMBDA st : st # "poll")

\* C18: the stages of a run are an initial part of the fixed order, status
\* queries coming last, and a run in which a stage failed (it did not get
\* a build) answers with an error response.
C18_OrderedAndShortCircuit ==
  \A i \in 1..Len(runs) :
    LET r == runs[i]
        b == BeforePolling(r.stages)
    IN /\ Len(b) <= Len(StageOrder(r.impl))
       /\ b = SubSeq(StageOrder(r.impl), 1, Len(b))
       /\ StageCount(r.stages, "poll") > 0 => b = StageOrder(r.impl)
       /\ \A k \in 1..Len(b) : r.stages[k] = b[k]
       /\ r.build_id = 0 => r.code >= 400

\* a status query that was answered: the build succeeded and no call failed
Resolved ==
  /\ sample # NoSample
  /\ obs.creds
  /\ obs.raises = "none"
  /\ obs.status = "SUCCESS"

\* the artifacts of the build results that lie under the expected bucket
InBucket(objects) == {i \in 1..Len(objects) : py_startswith(objects[i], BucketPrefix)}

\* the object name of a location under the expected bucket
NameOf(location) == py_slice(location, Len(BucketPrefix), Len(location))

\* C19: when the build results name an artifact under the expected bucket
\* the signed URL is minted from the first such object and the bucket is
\* not listed; when they name none, the bucket listing is used.
C19_FirstMatchWins ==
  Resolved =>
    IF InBucket(obs.objects) # {}
    THEN /\ ~sample.listed
         /\ \E i \in InBucket(obs.objects) :
              /\ \A j \in InBucket(obs.objects) : i <= j
              /\ sample.apk_url = generate_signed_url(NameOf(obs.objects[i]))
    ELSE sample.listed

\* the .apk objects under the conventional prefix
ApkBlobs(updated) ==
  {i \in 1..Len(BlobNames) :
     /\ updated[i] # NoBlob
     /\ py_startswith(BlobNames[i], ListPrefix)
     /\ py_endswith(BlobNames[i], <<".apk">>)}

\* C20: on the fallback path the URL is that of an .apk object under
\* 'ideaforge-builds/' whose update time no other such object exceeds.
C20_FallbackSelectsLatestUpdate ==
  (Resolved /\ sample.listed /\ ApkBlobs(obs.updated) # {}) =>
    \E i \in ApkBlobs(obs.updated) :
      /\ \A j \in ApkBlobs(obs.updated) : obs.updated[j] <= obs.updated[i]
      /\ sample.apk_url = generate_signed_url(BlobNames[i])

\* the build ids a thread passed to the status query, stored or reported
IdsUsed(t) == t.polled \cup t.stored \cup (IF t.reported = 0 THEN {} ELSE {t.reported})

\* C16: a run triggers at most one build, and every build id it queries,
\* stores or reports is the id its own trigger call returned, a build the
\* service created for this run and for no other.
C16_OwnBuildOnly ==
  \A r \in 1..MaxThreads :
    /\ Len(threads[r].triggered) <= 1
    /\ Cardinality({id \in 1..Len(builds) : builds[id].owner = r}) <= 1
    /\ \A id \in IdsUsed(threads[r]) :
         /\ threads[r].triggered = <<id>>
         /\ builds[id].owner = r

\* two concurrent runs have both used and reported a build, each its own
C16_Witness ==
  \E r1 \in 1..MaxThreads : \E r2 \in 1..MaxThreads :
    /\ r1 # r2
    /\ threads[r1].pc = "done" /\ threads[r2].pc = "done"
    /\ threads[r1].reported # 0 /\ threads[r2].reported # 0
    /\ threads[r1].reported # threads[r2].reported
    /\ threads[r1].polled \cup threads[r1].stored # {}
    /\ threads[r2].polled \cup threads[r2].stored # {}

\* C21: when the last sample says SUCCESS and carries no artifact URL, the
\* response is an error that does not say the build failed or timed out.
C21_ArtifactNotFoundIsDistinct ==
  (poll.pc = "done" /\ poll.build_status = "SUCCESS" /\ poll.apk_download_url = NoUrl) =>
    /\ poll.code >= 400
    /\ ~py_startswith(poll.error, <<"Build failed or timed out. Status: ">>)

\* C22: a sample carries an artifact URL only with the status SUCCESS; with
\* any other status, and for a query that failed, the URL is None and no
\* signed URL was minted.
C22_UrlOnlyWithSuccess ==
  (sample # NoSample /\ sample.status # "SUCCESS") =>
    (sample.apk_url = NoUrl /\ sample.minted = {})

\* a build that has not succeeded, or a failed query, was sampled although
\* the results name an artifact in the bucket and the bucket holds .apk files
C22_Witness ==
  /\ sample # NoSample
  /\ sample.status # "SUCCESS"
  /\ sample.apk_url = NoUrl
  /\ first_artifact_rb(obs.objects) # 0
  /\ ApkBlobs(obs.updated) # {}

\* C28: a generation request without a body or without a prompt is
\* answered with 400 and no stage is invoked for it.
C28_MalformedRequestRejected ==
  \A i \in 1..Len(runs) :
    reqs[i] \in {"noprompt", "nobody"} =>
      (runs[i].code = 400 /\ runs[i].stages = <<>>)

\* the fields of a response that hold the model output
RawOutputFields == {"generated_code", "generated_code_from_claude"}

\* C29: an error response for a failure after the model produced text
\* carries the model output, and an error response after a status sample
\* carries the build log URL field.
C29_ErrorsCarryModelOutput ==
  \A i \in 1..Len(runs) :
    /\ (runs[i].code >= 400 /\ StageCount(runs[i].stages, "extract") > 0) =>
         runs[i].body \cap RawOutputFields # {}
    /\ (runs[i].code >= 400 /\ StageCount(runs[i].stages, "poll") > 0) =>
         "build_log_url" \in runs[i].body

\* a run whose publish succeeded and which then answered with an error
FailedAfterPublish(r) ==
  /\ StageCount(r.stages, "trigger") > 0
  /\ r.code >= 400

\* C30: when a stage fails after a successful publish, nothing more is done
\* to the repository: the publish of the run is the last one, and if it
\* pushed a commit the branch is still at that commit and no commit follows
\* it; its working copy is gone.
C30_NoRollbackAfterPublish ==
  (runs # <<>> /\ FailedAfterPublish(runs[Len(runs)])) =>
    /\ pubLog # <<>>
    /\ LET e == pubLog[Len(pubLog)]
       IN /\ e.ok
          /\ e.files = runs[Len(runs)].files
          /\ e.commit # 0 => (branches[e.pushed] = e.commit /\ e.commit = Len(trees))
          /\ Len(pubLog) \notin tempDirs

\* a run was published, its build was triggered and failed or timed out
C30_Witness ==
  /\ runs # <<>>
  /\ FailedAfterPublish(runs[Len(runs)])
  /\ StageCount(runs[Len(runs)].stages, "poll") > 0
  /\ pubLog # <<>>
  /\ pubLog[Len(pubLog)].ok
  /\ pubLog[Len(pubLog)].commit # 0

\* the recorded status of a build id ("None": nothing recorded)
Recorded(statuses, b) ==
  IF dict_has(statuses, <<b>>) THEN dict_get(statuses, <<b>>).status ELSE NoValue

\* C25: once the status recorded for a build id is outside PENDING, QUEUED,
\* WORKING, no step changes it.
C25_TerminalStatusFrozen ==
  [][\A b \in BuildIds :
       (dict_has(build_statuses, <<b>>) /\ Recorded(build_statuses, b) \notin InProgress)
         => Recorded(build_statuses', b) = Recorded(build_statuses, b)]_vars

\* the step is a request of this kind to a status endpoint
Requested(kind) == http'.n # http.n /\ http'.req[1] = kind

Complete(e) == dict_has(e, "id") /\ dict_has(e, "status")

\* C27: a notification that decodes to an event with a build id and a
\* status sets the recorded status of that id to the event's status; one
\* with no 'message' field, or whose event lacks the id or the status, is
\* answered with 400 and leaves build_statuses unchanged.
C27_WebhookRecordsEventStatus ==
  [][Requested("webhook") =>
       /\ (http'.req[2] = <<>> \/ ~dict_has(http'.req[2], "message")) =>
            (http'.code = 400 /\ build_statuses' = build_statuses)
       /\ \A e \in Events :
            http'.req[2] = Push(b64encode(json_dumps(e))) =>
              IF Complete(e)
              THEN Recorded(build_statuses', dict_get(e, "id")) = dict_get(e, "status")
              ELSE http'.code = 400 /\ build_statuses' = build_statuses]_vars

\* a SUCCESS event was recorded although its artifact was not found
C27_Witness ==
  /\ http.req[1] = "webhook"
  /\ http.code = 500
  /\ \E e \in Events :
       /\ Complete(e)
       /\ http.req[2] = Push(b64encode(json_dumps(e)))
       /\ dict_get(e, "status") = "SUCCESS"
       /\ Recorded(build_statuses, dict_get(e, "id")) = "SUCCESS"

\* the last n elements of a sequence, all of them if it has fewer
LastTurns(turns, n) ==
  LET k == IF Len(turns) > n THEN n ELSE Len(turns)
  IN [i \in 1..k |-> turns[Len(turns) - k + i]]

\* the turns of the successful calls of an id, in call order
SaidBy(uid) == IF dict_has(said, uid) THEN dict_get(said, uid) ELSE <<>>

\* C23: after any sequence of sequential call_claude_api calls the history
\* stored for each conversation id has at most 10 turns and equals the last
\* 10 turns (all of them if fewer) of the turns of that id's successful
\* calls, in call order.
C23_HistoryIsLastTenTurns ==
  \A uid \in UserIds :
    IF dict_has(conversation_history, uid)
    THEN /\ Len(Stored(conversation_history, heap, uid)) <= 10
         /\ Stored(conversation_history, heap, uid) = LastTurns(SaidBy(uid), 10)
    ELSE SaidBy(uid) = <<>>

\* a call that failed has left its user turn in a history that now holds
\* more than ten turns
C23_FailedCallLeftTurn ==
  \E t \in 1..Len(callers) :
    /\ callers[t].pc = "failed"
    /\ dict_has(conversation_history, callers[t].uid)
    /\ LET h == Stored(conversation_history, heap, callers[t].uid)
       IN Len(h) > 10 /\ h[Len(h)] = Turn("user", callers[t].prompt)

\* the thread t is the only call of its conversation id
AloneOnItsId(t) ==
  \A t2 \in 1..Len(callers) : t2 # t => callers[t2].uid # callers[t].uid

\* the history of an id after the calls a and b ran one after the other
Serial(uid, a, b) ==
  LastTurns(SaidBy(uid) \o Exchange(a, backend) \o Exchange(b, backend), 10)

\* C24: calls with distinct conversation ids never affect each other's
\* history: a step of a call leaves the history of every other id as it
\* was, and a call that shares its id with no other call leaves the
\* history its sequential run leaves; two interleaved calls of one id can
\* leave a history that is no ordered sequence of both exchanges.
C24_DistinctIdsIndependent ==
  /\ [](\A t \in 1..Len(callers) :
          (callers[t].pc = "done" /\ AloneOnItsId(t)) =>
            Stored(conversation_history, heap, callers[t].uid)
              = LastTurns(SaidBy(callers[t].uid) \o Exchange(callers[t], backend), 10))
  /\ [][\A t \in 1..Len(callers) :
          callers'[t] # callers[t] =>
            \A uid \in UserIds \ {callers[t].uid} :
              Stored(conversation_history', heap', uid)
                = Stored(conversation_history, heap, uid)]_vars

\* both calls of one id have returned, and the history of the id is the
\* sequential result of neither order
C24_Witness ==
  \E a \in 1..Len(callers), b \in 1..Len(callers) :
    /\ a < b
    /\ callers[a].uid = callers[b].uid
    /\ callers[a].pc = "done" /\ callers[b].pc = "done"
    /\ Stored(conversation_history, heap, callers[a].uid)
         \notin {Serial(callers[a].uid, callers[a], callers[b]),
                 Serial(callers[a].uid, callers[b], callers[a])}

\* the run has triggered a build
Triggered(r) == r.build_id # 0

\* where the publisher puts an entry of the file set
PublishedAt(name) == IF name = K_MAIN THEN P_MAIN ELSE name

\* the head of generated-app holds every entry of the file set
BranchHolds(files) ==
  /\ branches["generated-app"] # 0
  /\ \A i \in 1..Len(files) :
       HeadTree("generated-app")[PublishedAt(files[i][1])] = files[i][2]

\* C31: when the runs are serialized, the branch content a run's triggered
\* build is started from is the file set this run published, for every run
\* and any sequence of file sets.
C31_BuildStartsFromPublishedFiles ==
  (runs # <<>> /\ Triggered(runs[Len(runs)])) => BranchHolds(runs[Len(runs)].files)

\* a real-build run found its file set equal to the default branch, pushed
\* nothing, and triggered a build of the branch an earlier run had pushed
\* other content to
C31_BuildFromEarlierRun ==
  /\ backend = "rb"
  /\ Len(runs) > 1
  /\ Triggered(runs[Len(runs)])
  /\ pubLog[Len(pubLog)].msg = "No changes to commit."
  /\ branches["generated-app"] # 0
  /\ ~BranchHolds(runs[Len(runs)].files)

\* the content holds a fence marker or a filename marker
Leaks(content) == py_in(<<FENCE>>, content) \/ py_in(<<FNMARK>>, content)

\* the error is the leaked-markup error for the file
NamesFile(error, filename) == py_startswith(error, <<"Invalid content in ">> \o filename)

\* the j-th entry of the file set violates a check
EntryFails(f, j) ==
  \/ Leaks(f[j][2])
  \/ /\ f[j][1] = K_PUB
     /\ (MalformedManifest(f) \/ UnscannableManifest(f) \/ MissingAsset(f))
  \/ /\ f[j][1] = K_MAIN
     /\ (~StartsWithImport(f) \/ ~HasEntry(f) \/ UninitializedField(f))

\* C32 (as stated): no accepted file content contains the fence marker or
\* 'FILENAME:', and a file set in which any file's content contains
\* either marker is rejected with an error naming that file.
C32_LeakedMarkupNamed ==
  vOut.done =>
    /\ vOut.error = <<>> => ~LeakedMarkup(fs)
    /\ \A i \in 1..Len(fs) : Leaks(fs[i][2]) => NamesFile(vOut.error, fs[i][1])

\* C32 (amended): no accepted file content contains either marker; a file
\* set in which a file's content contains one is rejected, and the error
\* names that file when no earlier file of the mapping fails a check.
C32_LeakedMarkupFirstFailure ==
  vOut.done =>
    /\ vOut.error = <<>> => ~LeakedMarkup(fs)
    /\ LeakedMarkup(fs) => vOut.error # <<>>
    /\ \A i \in 1..Len(fs) :
         (Leaks(fs[i][2]) /\ \A j \in 1..(i - 1) : ~EntryFails(fs, j))
           => NamesFile(vOut.error, fs[i][1])

C32_Witness ==
  /\ vOut.done
  /\ \E i \in 2..Len(fs) : Leaks(fs[i][2]) /\ NamesFile(vOut.error, fs[i][1])

\* the asset paths the manifest declares
DeclaredAssets(f) ==
  LET y == yaml_safe_load(dict_get(f, K_PUB))
  IN IF y.assets = "list" THEN {y.items[i] : i \in 1..Len(y.items)} ELSE {}

\* C33: if the manifest declares asset files, validation accepts the file
\* set only if every declared asset path is a key of the file set; a
\* declared asset that is absent causes rejection with an error naming
\* that asset path.
C33_DeclaredAssetsPresent ==
  vOut.done =>
    /\ vOut.error = <<>> => \A a \in DeclaredAssets(fs) : dict_has(fs, a)
    /\ \A a \in DeclaredAssets(fs) :
         ~dict_has(fs, a) => vOut.error = <<"Missing required asset file: ">> \o a

\* a file set is accepted although an asset its manifest declares is no
\* key of it
C33_AcceptedWithoutDeclaredAsset ==
  /\ vOut.done
  /\ vOut.error = <<>>
  /\ \E a \in DeclaredAssets(fs) : ~dict_has(fs, a)

\* the line names a checked type and has no initializer, no optional
\* marker and no 'required'
FieldLine(line) ==
  /\ \E t \in {<<"double", WS>>, <<"int", WS>>, <<"String", WS>>, <<"bool", WS>>,
               <<"List<">>, <<"Map<">>} : py_in(t, line)
  /\ ~py_in(<<"=">>, line) /\ ~py_in(<<"?">>, line) /\ ~py_in(<<"required">>, line)

\* the line is one the scan passes over: a comment, an import, or the
\* start of a class, of a void function, of a return, or a closing brace
PassedOver(line) == \E p \in SkipPrefixes : py_startswith(py_strip(line), p)

\* 1-based number of the first line of the content with the property, 0
\* when there is none
FirstFieldLine(content, scanned) ==
  LET lines == py_split(content, NL)
      hits == {i \in 1..Len(lines) :
                 FieldLine(lines[i]) /\ (scanned => ~PassedOver(lines[i]))}
  IN IF hits = {} THEN 0 ELSE CHOOSE i \in hits : \A j \in hits : i <= j

FieldError(n) ==
  <<"Invalid main.dart: Uninitialized non-nullable field at line ", ToString(n)>>

IsFieldError(error) ==
  py_startswith(error, <<"Invalid main.dart: Uninitialized non-nullable field at line ">>)

\* the field check of main.dart is reached: no earlier file fails a check
\* and main.dart passes the checks that come before it
FieldCheckReached(f) ==
  /\ \A j \in 1..Len(f) :
       (\E k \in (j + 1)..Len(f) : f[k][1] = K_MAIN) => ~EntryFails(f, j)
  /\ ~Leaks(dict_get(f, K_MAIN))
  /\ StartsWithImport(f)
  /\ HasEntry(f)

\* C34 (as stated): if main.dart has a line that declares a field of a
\* checked type without an initializer, an optional marker or 'required',
\* validation rejects the file set and the error reports the 1-based
\* number of the first such line; a main.dart with no such line is not
\* rejected by this check.
C34_UninitializedFieldLine ==
  vOut.done =>
    IF FirstFieldLine(dict_get(fs, K_MAIN), FALSE) # 0
    THEN vOut.error = FieldError(FirstFieldLine(dict_get(fs, K_MAIN), FALSE))
    ELSE ~IsFieldError(vOut.error)

\* C34 (amended): the lines in question are those the scan does not pass
\* over; the file set is rejected whenever main.dart has such a line, and
\* the error reports the number of the first one when the field check is
\* reached; a main.dart with no such line is not rejected by this check.
C34_UninitializedFieldLineScanned ==
  vOut.done =>
    IF FirstFieldLine(dict_get(fs, K_MAIN), TRUE) # 0
    THEN /\ vOut.error # <<>>
         /\ FieldCheckReached(fs)
              => vOut.error = FieldError(FirstFieldLine(dict_get(fs, K_MAIN), TRUE))
    ELSE ~IsFieldError(vOut.error)

C34_Witness ==
  /\ vOut.done
  /\ vOut.error = FieldError(4)
  /\ FieldLine(py_split(dict_get(fs, K_MAIN), NL)[5])

\* the trimmed content of the line starts with the fence marker
IsFenceLine(line) == py_startswith(py_strip(line), <<FENCE>>)

\* the number of fence lines among the first k lines
FenceCount(lines, k) == Cardinality({i \in 1..k : IsFenceLine(lines[i])})

\* the lines i and j are an opening fence line and its closing fence line
FencePair(lines, i, j) ==
  /\ i < j
  /\ IsFenceLine(lines[i]) /\ IsFenceLine(lines[j])
  /\ FenceCount(lines, i) % 2 = 1
  /\ \A k \in (i + 1)..(j - 1) : ~IsFenceLine(lines[k])

\* the content is made of the lines strictly between the lines i and j
BlockBetween(lines, i, j, content) ==
  content = py_join([k \in 1..(j - i - 1) |-> py_rstrip(lines[i + k])], NL)

\* what the scan of the model output has stored
Scanned == scan_rb(ScanInit, py_split(raw, NL)).files

\* C35: after any prefix of the input lines the scanner is inside a fenced
\* block exactly when the prefix has an odd number of fence lines; no
\* fence line is part of a stored content, and every stored content is
\* made of the lines strictly between an opening and a closing fence line.
C35_FenceParity ==
  rbOut.done =>
    /\ \A k \in 0..Len(py_split(raw, NL)) :
         scan_rb(ScanInit, SubSeq(py_split(raw, NL), 1, k)).in_code_block
           = (FenceCount(py_split(raw, NL), k) % 2 = 1)
    /\ \A n \in 1..Len(Scanned) :
         /\ \A l \in 1..Len(py_split(Scanned[n][2], NL)) :
              ~IsFenceLine(py_split(Scanned[n][2], NL)[l])
         /\ \E i, j \in 1..Len(py_split(raw, NL)) :
              /\ FencePair(py_split(raw, NL), i, j)
              /\ BlockBetween(py_split(raw, NL), i, j, Scanned[n][2])

\* a block left open is closed by the opening fence line of the next
\* block, and a later block is stored
C35_Witness ==
  /\ rbOut.done
  /\ Len(Scanned) > 0
  /\ \E i, j \in 1..Len(py_split(raw, NL)) :
       /\ FencePair(py_split(raw, NL), i, j)
       /\ py_strip(py_split(raw, NL)[j]) # <<FENCE>>
  /\ \E k \in 1..Len(py_split(raw, NL)) :
       /\ ~IsFenceLine(py_split(raw, NL)[k])
       /\ FenceCount(py_split(raw, NL), k) % 2 = 1
       /\ FenceCount(py_split(raw, NL), k) > 2

\* the file name a block of the model output carries: on its opening
\* fence line (the form live_backend_real_build.py reads) or on a
\* FILENAME: line (the form live_backend.py reads)
FenceNamed ==
  {"mainTagged", "pubTagged", "libMainTagged", "assetTagged", "otherTagged"}

MarkerNamed == {"mainWF", "pubWF", "assetWF"}

BlockName(k) ==
  IF k \in {"mainTagged", "mainWF"} THEN <<"main.dart">>
  ELSE IF k \in {"pubTagged", "pubWF"} THEN <<"pubspec.yaml">>
  ELSE IF k = "libMainTagged" THEN <<"lib/", "main.dart">>
  ELSE IF k \in {"assetTagged", "assetWF"} THEN <<"assets/", "logo.png">>
  ELSE <<"utils.dart">>

\* the key the block is to be stored under (<<>>: the block is dropped)
KeyFor(name) ==
  IF py_in(<<"main.dart">>, name) THEN <<"main.dart">>
  ELSE IF py_in(<<"pubspec.yaml">>, name) THEN <<"pubspec.yaml">>
  ELSE IF py_startswith(name, <<"assets/">>) THEN name
  ELSE <<>>

KeyAllowed(k) ==
  k \in {<<"main.dart">>, <<"pubspec.yaml">>} \/ py_startswith(k, <<"assets/">>)

\* the blocks of the kinds are stored in files, or dropped, as KeyFor says
BlocksStored(kinds, files) ==
  \A i \in 1..Len(segs) :
    segs[i] \in kinds =>
      IF KeyFor(BlockName(segs[i])) # <<>>
      THEN dict_has(files, KeyFor(BlockName(segs[i])))
      ELSE ~dict_has(files, BlockName(segs[i]))

\* C36: the keys of a mapping returned by parse_generated_code are
\* main.dart, pubspec.yaml or names starting with 'assets/'; a block whose
\* file name contains main.dart or pubspec.yaml is stored under that key,
\* a block whose file name starts with 'assets/' under its file name, and
\* a block with any other file name is dropped.
C36_KeysCanonicalOrAsset ==
  /\ (rbOut.done /\ rbOut.ok) => \A k \in dict_keys(rbOut.files) : KeyAllowed(k)
  /\ lbOut.done => \A k \in dict_keys(lbOut.files) : KeyAllowed(k)
  /\ (rbOut.done /\ \A i \in 1..Len(segs) : segs[i] # "mainOpen")
       => BlocksStored(FenceNamed, Scanned)
  /\ lbOut.done => BlocksStored(MarkerNamed, lbOut.files)

\* live_backend.py has parsed an output with an asset block and returned a
\* mapping without the asset
C36_AssetBlockDropped ==
  /\ lbOut.done
  /\ \E i \in 1..Len(segs) : segs[i] = "assetWF"
  /\ ~dict_has(lbOut.files, <<"assets/", "logo.png">>)

\* the turns stored for an id, none for an id without history
TurnsOf(hist, hp, uid) == IF dict_has(hist, uid) THEN Stored(hist, hp, uid) ELSE <<>>

\* C37: a call_claude_api call that fails leaves conversation_history
\* unchanged for every conversation id; the history of an id changes only on
\* a successful call, by appending that call's user turn followed by the
\* model's reply (the last ten turns are kept).
C37_FailedCallLeavesHistory ==
  [][callers' # callers =>
       LET c == callers'[Len(callers')]
       IN \A uid \in UserIds :
            IF c.pc = "done" /\ uid = c.uid
            THEN Stored(conversation_history', heap', uid) =
                   LastTurns(TurnsOf(conversation_history, heap, uid)
                             \o <<Turn("user", c.prompt), Turn("assistant", c.text)>>, 10)
            ELSE Stored(conversation_history', heap', uid) =
                   Stored(conversation_history, heap, uid)]_vars

\* the last call failed on a reply it could not read, and its user turn is
\* the last turn of the history of its id
C37_FailedCallChangedHistory ==
  /\ callers # <<>>
  /\ LET c == callers[Len(callers)]
     IN /\ c.pc = "failed"
        /\ c.reply = "malformed"
        /\ LET h == TurnsOf(conversation_history, heap, c.uid)
           IN h # <<>> /\ h[Len(h)] = Turn("user", c.prompt)

\* the observation the k-th sample of the run was taken from
Sampled(k) == job_shows(job, k)

\* C38: every status on which the polling loop decides to continue or stop
\* is a status name of the build service: a sample that fails with an
\* exception yields no status that ends the loop while the remote build is
\* still in progress, and the loop keeps sampling up to its fixed bound.
C38_DecidesOnServiceStatuses ==
  /\ \A k \in 1..Len(poll.samples) : poll.samples[k].status \in Statuses
  /\ poll.pc \in {"respond", "done"} /\ poll.samples # <<>> /\
       Sampled(Len(poll.samples)).status \in InProgress
       => Len(poll.samples) = max_polls

\* the loop has ended before its bound on the status of a query that
\* raised, with the remote build in progress
C38_StoppedOnFailedSample ==
  /\ poll.pc = "done"
  /\ poll.samples # <<>>
  /\ Len(poll.samples) < max_polls
  /\ Sampled(Len(poll.samples)).raises = "get_build"
  /\ Sampled(Len(poll.samples)).status \in InProgress
  /\ poll.build_status = "ERROR"
  /\ poll.code = 500

\* the record of the build id was stored by cloud_build_webhook (line 558
\* stores no message, line 492 does)
WebhookRecorded(statuses, id) ==
  dict_has(statuses, <<id>>) /\ dict_get(statuses, <<id>>).message = NoValue

\* C39: the record {status: PENDING} that generate_app_real_build stores
\* after triggering a build never replaces a status a webhook notification
\* has recorded for the same build id: in every interleaving, a step that is
\* no step of cloud_build_webhook leaves such a record as it is.
C39_PendingNeverReplacesWebhookStatus ==
  [][\A id \in 1..Len(builds) :
       WebhookRecorded(build_statuses, id) /\ hooks' = hooks
         => dict_get(build_statuses', <<id>>) = dict_get(build_statuses, <<id>>)]_vars

\* a notification of a build was answered, none came after it for that
\* build, and the record of the build is the initial one
C39_PendingReplacedWebhookStatus ==
  \E h \in 1..Len(hooks) :
    /\ hooks[h].pc = "done"
    /\ hooks[h].status = "WORKING"
    /\ \A h2 \in 1..Len(hooks) : h2 # h => hooks[h2].build_id # hooks[h].build_id
    /\ dict_get(build_statuses, <<hooks[h].build_id>>) =
         BuildRecord("PENDING", "Build triggered successfully", NoUrl)

\* C40: in every reachable state of build_statuses a record that holds a
\* download_url has the status SUCCESS; a notification with another status
\* replaces the whole record, so that no stale download_url accompanies it.
C40_UrlOnlyOnSuccessRecord ==
  \A i \in 1..Len(build_statuses) :
    build_statuses[i][2].download_url # NoUrl => build_statuses[i][2].status = "SUCCESS"

\* a record holds a download_url beside a status that is not SUCCESS
C40_UrlBesideOtherStatus ==
  \E i \in 1..Len(build_statuses) :
    /\ build_statuses[i][2].download_url # NoUrl
    /\ build_statuses[i][2].status \in {"PENDING", "WORKING", "FAILURE"}

====
